---- MODULE Spec2Model ----
(***************************************************************************)
(* State-machine model of the garage inventory application (package        *)
(* src/src/garage): users, boxes, items, stored files, the login session,  *)
(* password-reset tokens and the request handlers that act on them.        *)
(* Every request is handled to completion, so each handler is one action.  *)
(***************************************************************************)
EXTENDS Integers, FiniteSets, Sequences, TLC

\* ------------------------------------------------------------------ bounds
MaxUsers == 2        \* user ids ever assigned: 1..MaxUsers
MaxBoxes == 2        \* box ids ever assigned: 1..MaxBoxes
MaxItems == 2        \* item ids ever assigned: 1..MaxItems
MaxTicks == 3        \* steps of the server clock
MaxTokens == 1       \* reset tokens delivered by mail
MaxQty == 2          \* largest quantity submitted
MaxValue == 1        \* largest unit value submitted
MaxSuffix == 2       \* random suffixes of image names under failing storage
MaxThreads == 2      \* request threads calling the storage factory
MaxAddresses == 2    \* memory addresses an application object can get
MaxBuilt == 3        \* backend instances constructed in one run

\* -------------------------------------------------------- program constants
PASSWORD_RESET_EXPIRY == 3600
TickSeconds == 1800  \* seconds the model clock advances per step

UserIds == 1..MaxUsers
BoxIds == 1..MaxBoxes
ItemIds == 1..MaxItems
Names == 1..MaxUsers       \* usernames submitted
Emails == 1..MaxUsers      \* email addresses submitted
Passwords == {1, 2}        \* passwords submitted
BoxNames == {1}            \* box names submitted
Suffixes == {1}            \* random suffixes of uploaded image names
QtyInputs == -1..MaxQty
ValueInputs == -1..MaxValue
MaxAges == {TickSeconds, PASSWORD_RESET_EXPIRY, 2 * PASSWORD_RESET_EXPIRY}

VARIABLES
    users,      \* table users: id -> [username, email, password_hash, is_admin]
    boxes,      \* table boxes: id -> [name, user_id, image_path, qr_code_path]
    items,      \* table items: id -> [name, copies, quantity, value, value_null,
                \* box_id]; value_null marks a NULL in column value
    files,      \* locations that hold content in the storage backend
    session,    \* user id kept in the client's login session, 0 when none
    tokens,     \* reset tokens delivered to a mailbox
    now,        \* server clock, in seconds
    nextUserId, \* next primary key of table users
    nextBoxId,  \* next primary key of table boxes
    nextItemId, \* next primary key of table items
    resp,       \* response to the last request
    storage,    \* the storage backend the factory has built: its
                \* configuration and, for object storage, the bucket's objects
    qr_data,    \* stored QR file -> the text its QR code encodes
    apps,       \* live application objects: id(app) -> configuration
    storage_backends, \* factory.py _storage_backends: id(app) -> backend instance
    calls,      \* thread -> position of its get_storage_backend call
    built,      \* number of backend instances constructed so far
    registrations \* thread -> the registration it has validated, not yet committed

vars == <<users, boxes, items, files, session, tokens, now,
          nextUserId, nextBoxId, nextItemId, resp, storage,
          qr_data, apps, storage_backends, calls, built, registrations>>

\* the state of the storage factory and of the applications that use it
factory == <<apps, storage_backends, calls, built>>

\* ----------------------------------------------------------------- values
NoPath == [kind |-> "none", box |-> 0, uid |-> 0]
ImagePath(b, k) == [kind |-> "image", box |-> b, uid |-> k]
QrPath(b) == [kind |-> "qr", box |-> b, uid |-> 0]

\* flash messages and endpoints, as the handlers spell them
MsgLoginRequired == "Please log in to access this page."
MsgBoxDenied == "You do not have permission to access this box."
MsgItemDenied == "You do not have permission to access this item."
MsgScanDenied == "You do not have permission to view this box."
MsgMoveDenied == "You do not have permission to move items to that box."
MsgMoveNoTarget == "Please select a destination box."
MsgResetSent == "A password reset link has been sent to your email."
MsgResetMailError == "Error sending email. Please try again later."
MsgResetUnknown == "If an account with that email exists, a reset link has been sent."
MsgTokenInvalid == "Invalid or expired reset link. Please request a new one."
MsgResetDone == "Your password has been reset successfully! You can now log in."

\* the reset token of a request that carries none
NoToken == [email |-> 0, ts |-> 0, sig |-> FALSE, payload |-> FALSE, user |-> 0]

\* A response: the handler, the acting user, the identifier in the URL, the
\* HTTP status, the flashed message, the redirect endpoint or rendered
\* template, the identifier of the entity shown or redirected to, the rows
\* shown, and the reset token the request carried in its URL.
Response(op, id, status, flash, target, arg, data) ==
    [op |-> op, user |-> IF session \in DOMAIN users THEN session ELSE 0,
     id |-> id, status |-> status, flash |-> flash, target |-> target,
     arg |-> arg, data |-> data, token |-> NoToken]
Redirect(op, id, flash, endpoint, arg) ==
    Response(op, id, 302, flash, endpoint, arg, {})
Render(op, id, flash, template, arg) ==
    Response(op, id, 200, flash, template, arg, {})
RenderData(op, id, template, arg, data) ==
    Response(op, id, 200, "", template, arg, data)
\* a missing entity answered like a denied one
NotFoundAsDenied(op, id) ==
    Response(op, id, 302, "You do not have permission to access this box.",
             "boxes.dashboard", 0, {})

\* get_or_404 with the 404 error handler of the application
NotFound(op, id) == Response(op, id, 404, "", "errors/404.html", 0, {})

\* the rows a rendered page shows
UserRow(u) == [table |-> "users", id |-> u]
BoxRow(b) == [table |-> "boxes", id |-> b]
ItemRow(i) == [table |-> "items", id |-> i]

\* what a response shows the client: everything but the handler's name and
\* what the request itself named
Outcome(r) == [status |-> r.status, flash |-> r.flash, target |-> r.target,
               arg |-> r.arg, data |-> r.data]

\* -------------------------------------------------------------- the session
\* load_user: the session's user id resolves through the users table
current_user == IF session \in DOMAIN users THEN session ELSE 0
is_authenticated == current_user # 0

\* login_required: an anonymous request is sent to the login page
Unauthorized(op, id) == Redirect(op, id, MsgLoginRequired, "auth.login", 0)

\* ---------------------------------------------------------------- models
\* Box.is_owned_by
BoxIsOwnedBy(b, u) == boxes[b].user_id = u

\* Item.is_owned_by delegates to the parent box
ItemIsOwnedBy(i, u) == BoxIsOwnedBy(items[i].box_id, u)

\* User.query.filter_by(email=...).first(): 0 when there is none
UserByEmail(e) ==
    IF \E u \in DOMAIN users : users[u].email = e
    THEN CHOOSE u \in DOMAIN users : users[u].email = e
    ELSE 0

UserByUsername(n) ==
    IF \E u \in DOMAIN users : users[u].username = n
    THEN CHOOSE u \in DOMAIN users : users[u].username = n
    ELSE 0

\* User.get_reset_token: the email, signed and stamped with the clock; the
\* field user remembers whom the token was issued for and is no part of it
get_reset_token(u) ==
    [email |-> users[u].email, ts |-> now, sig |-> TRUE, payload |-> TRUE,
     user |-> u]

\* serializer.loads called without max_age
TokenLoadsNoMaxAge(t, max_age) ==
    /\ t.sig
    /\ t.payload

\* serializer.loads: signature, then age, then payload
TokenLoads(t, max_age) ==
    /\ t.sig
    /\ ~(now - t.ts > max_age)
    /\ t.payload

\* User.verify_reset_token: the user the token resolves to, 0 for None
verify_reset_token(t, expiry) ==
    IF ~TokenLoads(t, expiry) THEN 0 ELSE UserByEmail(t.email)

\* the tokens a client can present: delivered ones, tampered copies of
\* them, and strings that never were tokens
TokenInputs ==
    tokens
    \cup {[t EXCEPT !.sig = FALSE] : t \in tokens}
    \cup {[t EXCEPT !.payload = FALSE] : t \in tokens}
    \cup {[email |-> e, ts |-> now, sig |-> FALSE, payload |-> FALSE, user |-> 0] :
             e \in Emails}

\* storage/local.py LocalStorageBackend: its files are the variable files
LocalStorageBackend == [type |-> "local"]

Threads == 1..MaxThreads
Addresses == 1..MaxAddresses

\* a thread that is not inside get_storage_backend
Idle == [pc |-> "idle", app |-> 0]

\* a thread that is not inside register
NoRegistration == [pc |-> "idle", username |-> 0, email |-> 0, password |-> 0]

\* ------------------------------------------------------------------- Init
Init ==
    /\ users = (1 :> [username |-> 1, email |-> 1, password_hash |-> 1,
                      is_admin |-> TRUE])
    /\ boxes = <<>>
    /\ items = <<>>
    /\ files = {}
    /\ session = 0
    /\ tokens = {}
    /\ now = 0
    /\ nextUserId = 2
    /\ nextBoxId = 1
    /\ nextItemId = 1
    /\ resp = [op |-> "init", user |-> 0, id |-> 0, status |-> 200,
               flash |-> "", target |-> "", arg |-> 0, data |-> {},
               token |-> NoToken]
    /\ storage = LocalStorageBackend
    /\ qr_data = <<>>
    /\ apps = <<>>
    /\ storage_backends = <<>>
    /\ calls = [t \in Threads |-> Idle]
    /\ built = 0
    /\ registrations = [t \in Threads |-> NoRegistration]

\* ------------------------------------------------------------ auth routes
\* register storing an is_admin flag of TRUE
RegisterAsAdmin(submit, valid, n, e, p) ==
    /\ UNCHANGED <<registrations, factory, qr_data, storage, boxes, items, files, session, tokens, now,
                   nextBoxId, nextItemId>>
    /\ IF is_authenticated
       THEN /\ resp' = Redirect("register", 0, "You are already registered and logged in!",
                                "boxes.dashboard", 0)
            /\ UNCHANGED <<users, nextUserId>>
       ELSE IF submit /\ valid /\ UserByUsername(n) = 0 /\ UserByEmail(e) = 0
       THEN /\ nextUserId <= MaxUsers
            /\ users' = users @@ (nextUserId :>
                   [username |-> n, email |-> e, password_hash |-> p,
                    is_admin |-> TRUE])
            /\ nextUserId' = nextUserId + 1
            /\ resp' = Redirect("register", 0, "Account created successfully",
                                "auth.login", 0)
       ELSE /\ resp' = Render("register", 0, "", "register.html", 0)
            /\ UNCHANGED <<users, nextUserId>>

\* routes/auth.py register
Register(submit, valid, n, e, p) ==
    /\ UNCHANGED <<registrations, factory, qr_data, storage, boxes, items, files, session, tokens, now, nextBoxId, nextItemId>>
    /\ IF is_authenticated
       THEN /\ resp' = Redirect("register", 0, "You are already registered and logged in!",
                                "boxes.dashboard", 0)
            /\ UNCHANGED <<users, nextUserId>>
       ELSE IF submit /\ valid /\ UserByUsername(n) = 0 /\ UserByEmail(e) = 0
       THEN /\ nextUserId <= MaxUsers
            /\ users' = users @@ (nextUserId :>
                   [username |-> n, email |-> e, password_hash |-> p,
                    is_admin |-> FALSE])
            /\ nextUserId' = nextUserId + 1
            /\ resp' = Redirect("register", 0, "Account created successfully",
                                "auth.login", 0)
       ELSE /\ resp' = Render("register", 0, "", "register.html", 0)
            /\ UNCHANGED <<users, nextUserId>>

\* routes/auth.py login
Login(submit, n, p) ==
    /\ UNCHANGED <<registrations, factory, qr_data, storage, users, boxes, items, files, tokens, now,
                   nextUserId, nextBoxId, nextItemId>>
    /\ IF is_authenticated
       THEN /\ resp' = Redirect("login", 0, "You are already logged in!",
                                "boxes.dashboard", 0)
            /\ UNCHANGED session
       ELSE IF submit /\ UserByUsername(n) # 0
                      /\ users[UserByUsername(n)].password_hash = p
       THEN /\ session' = UserByUsername(n)
            /\ resp' = Redirect("login", 0, "Welcome back", "boxes.dashboard", 0)
       ELSE IF submit
       THEN /\ resp' = Render("login", 0,
                              "Invalid username or password. Please try again.",
                              "login.html", 0)
            /\ UNCHANGED session
       ELSE /\ resp' = Render("login", 0, "", "login.html", 0)
            /\ UNCHANGED session

\* routes/auth.py logout
Logout ==
    /\ UNCHANGED <<registrations, factory, qr_data, storage, users, boxes, items, files, tokens, now,
                   nextUserId, nextBoxId, nextItemId>>
    /\ IF ~is_authenticated
       THEN /\ resp' = Unauthorized("logout", 0)
            /\ UNCHANGED session
       ELSE /\ session' = 0
            /\ resp' = Redirect("logout", 0, "You have been logged out successfully.",
                                "main.index", 0)

\* the response forgot_password gives to a submitted email, mail_ok telling
\* whether the mail transport accepted the message
ForgotPasswordResponse(e, mail_ok) ==
    IF UserByEmail(e) # 0
    THEN IF mail_ok
         THEN Redirect("forgot_password", 0, MsgResetSent, "auth.login", 0)
         ELSE Redirect("forgot_password", 0, MsgResetMailError, "auth.login", 0)
    ELSE Redirect("forgot_password", 0, MsgResetUnknown, "auth.login", 0)

\* routes/auth.py forgot_password with EmailService.send_password_reset
ForgotPassword(submit, e, mail_ok) ==
    /\ UNCHANGED <<registrations, factory, qr_data, storage, users, boxes, items, files, session, now,
                   nextUserId, nextBoxId, nextItemId>>
    /\ IF is_authenticated
       THEN /\ resp' = Redirect("forgot_password", 0, "", "boxes.dashboard", 0)
            /\ UNCHANGED tokens
       ELSE IF ~submit
       THEN /\ resp' = Render("forgot_password", 0, "", "forgotpassword.html", 0)
            /\ UNCHANGED tokens
       ELSE /\ resp' = ForgotPasswordResponse(e, mail_ok)
            /\ IF UserByEmail(e) # 0 /\ mail_ok
               THEN /\ Cardinality(tokens \cup {get_reset_token(UserByEmail(e))})
                         <= MaxTokens
                    /\ tokens' = tokens \cup {get_reset_token(UserByEmail(e))}
               ELSE UNCHANGED tokens

\* reset_password telling an expired link from a forged one
ResetPasswordResponseExpiredNotice(t, submit) ==
    IF t.sig /\ t.payload /\ now - t.ts > PASSWORD_RESET_EXPIRY
    THEN Redirect("reset_password", 0, "Your reset link has expired.",
                  "auth.forgot_password", 0)
    ELSE IF verify_reset_token(t, PASSWORD_RESET_EXPIRY) = 0
    THEN Redirect("reset_password", 0, MsgTokenInvalid, "auth.forgot_password", 0)
    ELSE IF submit
    THEN Redirect("reset_password", 0, MsgResetDone, "auth.login", 0)
    ELSE Render("reset_password", 0, "", "resetpassword.html", 0)

\* the response reset_password gives to a token
ResetPasswordResponse(t, submit) ==
    IF verify_reset_token(t, PASSWORD_RESET_EXPIRY) = 0
    THEN Redirect("reset_password", 0, MsgTokenInvalid, "auth.forgot_password", 0)
    ELSE IF submit
    THEN Redirect("reset_password", 0, MsgResetDone, "auth.login", 0)
    ELSE Render("reset_password", 0, "", "resetpassword.html", 0)

\* routes/auth.py reset_password
ResetPassword(t, submit, p) ==
    /\ UNCHANGED <<registrations, factory, qr_data, storage, boxes, items, files, session, tokens, now,
                   nextUserId, nextBoxId, nextItemId>>
    /\ IF is_authenticated
       THEN /\ resp' = [Redirect("reset_password", 0, "", "boxes.dashboard", 0)
                            EXCEPT !.token = t]
            /\ UNCHANGED users
       ELSE /\ resp' = [ResetPasswordResponse(t, submit) EXCEPT !.token = t]
            /\ IF verify_reset_token(t, PASSWORD_RESET_EXPIRY) # 0 /\ submit
               THEN users' = [users EXCEPT
                       ![verify_reset_token(t, PASSWORD_RESET_EXPIRY)].password_hash = p]
               ELSE UNCHANGED users

\* the server clock advances
Tick ==
    /\ now < MaxTicks * TickSeconds
    /\ now' = now + TickSeconds
    /\ UNCHANGED <<registrations, factory, qr_data, storage, users, boxes, items, files, session, tokens,
                   nextUserId, nextBoxId, nextItemId, resp>>

\* ------------------------------------------------------- storage backend
\* save_qr naming the file after the number of stored files
save_qr_counted_name(b, io_ok) ==
    IF io_ok THEN [kind |-> "qr", box |-> b, uid |-> Cardinality(files) + 1]
    ELSE [kind |-> "none", box |-> 0, uid |-> 0]

\* StorageBackend.save_qr: the location written, NoPath when the write fails
save_qr(b, io_ok) == IF io_ok THEN QrPath(b) ELSE NoPath

\* StorageBackend.save_image: a fresh name box_<id>_<suffix>, NoPath on failure
save_image(b, k, io_ok) == IF io_ok THEN ImagePath(b, k) ELSE NoPath

\* the stored content after a save returned location p
FilesAfterSave(fs, p) == IF p = NoPath THEN fs ELSE fs \cup {p}

\* StorageBackend.delete: TRUE when content was removed
delete(fs, p, io_ok) == p # NoPath /\ p \in fs /\ io_ok

\* a delete that leaves the file where it is
FilesAfterDeleteKeepsFile(fs, p, io_ok) == fs

\* the stored content after delete(p)
FilesAfterDelete(fs, p, io_ok) == IF delete(fs, p, io_ok) THEN fs \ {p} ELSE fs

\* StorageBackend.exists
exists(fs, p) == p # NoPath /\ p \in fs

\* the text generate_for_box encodes, naming the page of the box itself
box_url_of_detail_page(box_id) == <<"/box/", ToString(box_id)>>

\* QRService.generate_for_box: box_url, the text the QR code encodes
box_url(box_id) == <<"/qr/", ToString(box_id)>>

\* the texts of the stored QR files after a request left the files fs and
\* wrote the QR file p (NoPath when it wrote none) for box box_id
QrDataAfter(d, fs, p, box_id) ==
    [q \in {x \in fs : x.kind = "qr"} |-> IF q = p THEN box_url(box_id) ELSE d[q]]

\* the rule '/qr/<int:box_id>' of scan_redirect matched against a path: the
\* box_id the int converter reads from the decimal text, -1 when the rule
\* does not match
scan_redirect_rule(path) ==
    IF /\ Len(path) = 2
       /\ path[1] = "/qr/"
       /\ \E n \in 0..(MaxBoxes + 1) : ToString(n) = path[2]
    THEN CHOOSE n \in 0..(MaxBoxes + 1) : ToString(n) = path[2]
    ELSE -1

\* QRService.generate_for_box
generate_for_box(b, io_ok) == save_qr(b, io_ok)

\* QRService.regenerate_for_box: the stored content once the old code is gone
FilesAfterRegenerateDelete(fs, old_path, del_ok) ==
    IF old_path # NoPath THEN FilesAfterDelete(fs, old_path, del_ok) ELSE fs

\* QRService.regenerate_for_box on stored content fs: the location returned
\* (NoPath on failure) and the stored content afterwards
regenerate_for_box(fs, b, old_path, del_ok, qr_ok) ==
    [path |-> generate_for_box(b, qr_ok),
     files |-> FilesAfterSave(FilesAfterRegenerateDelete(fs, old_path, del_ok),
                              generate_for_box(b, qr_ok))]

\* LocalStorageBackend.get_url: the location rooted at "/", NoPath for None
get_url(p) == IF p = NoPath THEN NoPath ELSE <<"/", p>>

\* ------------------------------------------------------ object storage (S3)
\* Text is a sequence of atoms: a name, a separator or a URL scheme. None and
\* the empty string, which the code tests alike with "not", are both <<>>.
SchemeAtoms == {"http://", "https://"}
BucketNames == {<<"garage">>}
Regions == {<<"eu-west-2">>}
Prefixes == {<<"garage-inventory">>, <<"inv", "/", "photos">>, <<>>}
EndpointUrls ==
    {<<>>, <<"http://", "localhost:4566">>, <<"http://", "localhost:4566", "/">>,
     <<"http://", "proxy", "/", "minio">>}

\* storage/s3.py S3StorageBackend.__init__; objects are the keys the bucket holds
S3StorageBackend(bucket_name, region, endpoint_url, prefix) ==
    [type |-> "s3", bucket_name |-> bucket_name, region |-> region,
     endpoint_url |-> endpoint_url, prefix |-> prefix, objects |-> {}]

\* S3StorageBackend._get_key; k stands for the random part of an image name
S3_get_key(self, box_id, image_type, k) ==
    IF image_type = "qr"
    THEN self.prefix \o <<"/", "qrcodes", "/", "box_", ToString(box_id), ".png">>
    ELSE self.prefix \o <<"/", "images", "/", "box_", ToString(box_id), "_",
                          ToString(k), ".", "jpg">>

\* S3StorageBackend._get_url
S3_get_url(self, key) ==
    IF self.endpoint_url # <<>>
    THEN self.endpoint_url \o <<"/">> \o self.bucket_name \o <<"/">> \o key
    ELSE <<"https://">> \o self.bucket_name \o <<".s3.">> \o self.region
            \o <<".amazonaws.com", "/">> \o key

\* the index of the first atom of s that lies in S, Len(s) + 1 when none does
FirstIn(s, S) ==
    IF \E i \in 1..Len(s) : s[i] \in S
    THEN CHOOSE i \in 1..Len(s) : s[i] \in S /\ \A j \in 1..(i - 1) : s[j] \notin S
    ELSE Len(s) + 1

\* urllib.parse.urlparse of a URL that starts with a scheme: the netloc runs
\* to the first "/", "?" or "#", the path from there to the first "?" or "#"
urlparse(url) ==
    LET rest == Tail(url)
        n == FirstIn(rest, {"/", "?", "#"})
        after == SubSeq(rest, n, Len(rest))
    IN  [netloc |-> SubSeq(rest, 1, n - 1),
         path |-> SubSeq(after, 1, FirstIn(after, {"?", "#"}) - 1)]

\* str.strip('/')
strip(s) ==
    LET kept == {i \in 1..Len(s) : s[i] # "/"}
    IN  IF kept = {} THEN <<>>
        ELSE SubSeq(s, CHOOSE i \in kept : \A j \in kept : i <= j,
                       CHOOSE i \in kept : \A j \in kept : i >= j)

\* str.split('/', 1)
split(s) ==
    LET n == FirstIn(s, {"/"})
    IN  IF n > Len(s) THEN <<s>>
        ELSE <<SubSeq(s, 1, n - 1), SubSeq(s, n + 1, Len(s))>>

\* the Python test  sub in s  on strings
contains(sub, s) ==
    \E i \in 1..(Len(s) - Len(sub) + 1) : SubSeq(s, i, i + Len(sub) - 1) = sub

\* S3StorageBackend._extract_key_from_url
S3_extract_key_from_url(self, url) ==
    IF url = <<>> THEN <<>>
    ELSE IF Head(url) \notin SchemeAtoms THEN <<>>
    ELSE LET parsed == urlparse(url)
             path_parts == split(strip(parsed.path))
         IN  IF self.endpoint_url # <<>>
             THEN IF Len(path_parts) = 2 /\ path_parts[1] = self.bucket_name
                  THEN path_parts[2] ELSE <<>>
             ELSE IF contains(self.bucket_name, parsed.netloc)
                  THEN strip(parsed.path) ELSE <<>>

\* what a service call hands back: the value returned, whether an exception
\* left the call instead, and the keys the bucket holds afterwards
Outcome3(value, raised, objects) ==
    [value |-> value, raised |-> raised, objects |-> objects]

\* the remote API of one call: it answers ("ok"), it fails with a botocore
\* ClientError that is no 404 ("client_error"), or with any other exception
ApiOutcomes == {"ok", "client_error", "error"}

\* S3StorageBackend.save_image and save_qr after the key is chosen
S3_save(self, key, api) ==
    IF api = "ok" THEN Outcome3(S3_get_url(self, key), FALSE, self.objects \cup {key})
    ELSE Outcome3(<<>>, FALSE, self.objects)

\* delete answering FALSE when the bucket holds no object under the key
S3_delete_reports_missing(self, file_path, api) ==
    Outcome3(api = "ok" /\ S3_extract_key_from_url(self, file_path) \in self.objects,
             FALSE,
             IF api = "ok"
             THEN self.objects \ {S3_extract_key_from_url(self, file_path)}
             ELSE self.objects)

\* S3StorageBackend.delete
S3_delete(self, file_path, api) ==
    IF file_path = <<>> THEN Outcome3(FALSE, FALSE, self.objects)
    ELSE LET key == S3_extract_key_from_url(self, file_path)
         IN  IF key = <<>> THEN Outcome3(FALSE, FALSE, self.objects)
             ELSE IF api = "ok" THEN Outcome3(TRUE, FALSE, self.objects \ {key})
             ELSE IF api = "client_error" THEN Outcome3(FALSE, FALSE, self.objects)
             ELSE Outcome3(FALSE, TRUE, self.objects)

\* S3StorageBackend.get_url
S3_get_url_of(self, file_path) ==
    IF file_path = <<>> THEN <<>>
    ELSE IF Head(file_path) \in SchemeAtoms THEN file_path
    ELSE S3_get_url(self, file_path)

\* S3StorageBackend.exists: head_object answers 404 for a key without object
S3_exists(self, file_path, api) ==
    IF file_path = <<>> THEN Outcome3(FALSE, FALSE, self.objects)
    ELSE LET found == S3_extract_key_from_url(self, file_path)
             key == IF found = <<>> THEN file_path ELSE found
         IN  IF api = "ok" THEN Outcome3(key \in self.objects, FALSE, self.objects)
             ELSE Outcome3(FALSE, TRUE, self.objects)

\* ----------------------------------------------------------- guard layer
\* owns_box without the ownership check
OwnsBoxGuardNoOwnerCheck(op, b) ==
    IF ~is_authenticated THEN Unauthorized(op, b)
    ELSE IF b \notin DOMAIN boxes THEN NotFound(op, b)
    ELSE Response("pass", b, 0, "", "", 0, {})

\* owns_box looking the box up before the login check
OwnsBoxGuardLookupFirst(op, b) ==
    IF b \notin DOMAIN boxes THEN NotFound(op, b)
    ELSE IF ~is_authenticated THEN Unauthorized(op, b)
    ELSE IF ~BoxIsOwnedBy(b, current_user)
    THEN Redirect(op, b, MsgBoxDenied, "boxes.dashboard", 0)
    ELSE Response("pass", b, 0, "", "", 0, {})

\* utils/decorators.py owns_box, reached after login_required: the response
\* that ends the request, or "pass" when the handler runs
OwnsBoxGuard(op, b) ==
    IF ~is_authenticated THEN Unauthorized(op, b)
    ELSE IF b \notin DOMAIN boxes THEN NotFound(op, b)
    ELSE IF ~BoxIsOwnedBy(b, current_user)
    THEN Redirect(op, b, MsgBoxDenied, "boxes.dashboard", 0)
    ELSE Response("pass", b, 0, "", "", 0, {})

\* owns_item checking the item's id against the boxes instead of its box
OwnsItemGuardWrongBox(op, i) ==
    IF ~is_authenticated THEN Unauthorized(op, i)
    ELSE IF i \notin DOMAIN items THEN NotFound(op, i)
    ELSE IF i \in DOMAIN boxes /\ ~BoxIsOwnedBy(i, current_user)
    THEN Redirect(op, i, MsgItemDenied, "boxes.dashboard", 0)
    ELSE Response("pass", i, 0, "", "", 0, {})

\* owns_item sending a denied user to the page of the item's box
OwnsItemGuardShowsBox(op, i) ==
    IF ~is_authenticated THEN Unauthorized(op, i)
    ELSE IF i \notin DOMAIN items THEN NotFound(op, i)
    ELSE IF ~BoxIsOwnedBy(items[i].box_id, current_user)
    THEN Redirect(op, i, MsgItemDenied, "boxes.view_box", items[i].box_id)
    ELSE Response("pass", i, 0, "", "", 0, {})

\* utils/decorators.py owns_item
OwnsItemGuard(op, i) ==
    IF ~is_authenticated THEN Unauthorized(op, i)
    ELSE IF i \notin DOMAIN items THEN NotFound(op, i)
    ELSE IF ~BoxIsOwnedBy(items[i].box_id, current_user)
    THEN Redirect(op, i, MsgItemDenied, "boxes.dashboard", 0)
    ELSE Response("pass", i, 0, "", "", 0, {})

Passed(g) == g.op = "pass"

ItemsOf(b) == {i \in DOMAIN items : items[i].box_id = b}
\* every box, whoever owns it
BoxesOfAnyone(u) == DOMAIN boxes
BoxesOf(u) == {b \in DOMAIN boxes : boxes[b].user_id = u}
Restrict(f, S) == [x \in S |-> f[x]]

\* ------------------------------------------------------------- box routes
\* forms.py BoxForm as submitted: submit is a POST, valid the outcome of the
\* field validators (name required, image extension allowed)
BoxForm(submit, valid, name, image, delete_image) ==
    [submit |-> submit, valid |-> valid, name |-> name, image |-> image,
     delete_image |-> delete_image]

BoxForms ==
    {BoxForm(FALSE, TRUE, 1, FALSE, FALSE), BoxForm(TRUE, FALSE, 1, TRUE, FALSE)}
    \cup {BoxForm(TRUE, TRUE, n, image, del) :
             n \in BoxNames, image \in BOOLEAN, del \in BOOLEAN}

\* routes/boxes.py dashboard
Dashboard ==
    /\ UNCHANGED <<registrations, factory, qr_data, storage, users, boxes, items, files, session, tokens, now,
                   nextUserId, nextBoxId, nextItemId>>
    /\ resp' = IF ~is_authenticated THEN Unauthorized("dashboard", 0)
               ELSE RenderData("dashboard", 0, "boxlist.html", 0,
                               {BoxRow(b) : b \in BoxesOf(current_user)})

\* routes/boxes.py create_box
CreateBox(form, k, qr_ok, img_ok) ==
    /\ UNCHANGED <<registrations, factory, storage, users, items, session, tokens, now, nextUserId, nextItemId>>
    /\ IF ~is_authenticated
       THEN /\ resp' = Unauthorized("create_box", 0)
            /\ UNCHANGED <<boxes, files, nextBoxId, qr_data>>
       ELSE IF ~(form.submit /\ form.valid)
       THEN /\ resp' = Render("create_box", 0, "", "boxform.html", 0)
            /\ UNCHANGED <<boxes, files, nextBoxId, qr_data>>
       ELSE LET b == nextBoxId
                qr_path == generate_for_box(b, qr_ok)
                files1 == FilesAfterSave(files, qr_path)
                image_path == IF form.image THEN save_image(b, k, img_ok) ELSE NoPath
            IN  /\ b <= MaxBoxes
                /\ boxes' = boxes @@ (b :> [name |-> form.name,
                                            user_id |-> current_user,
                                            image_path |-> image_path,
                                            qr_code_path |-> qr_path])
                /\ files' = FilesAfterSave(files1, image_path)
                /\ qr_data' = QrDataAfter(qr_data, files', qr_path, b)
                /\ nextBoxId' = b + 1
                /\ resp' = Redirect("create_box", 0, "Box created successfully!",
                                    "boxes.view_box", b)

\* routes/boxes.py view_box
ViewBox(b) ==
    /\ UNCHANGED <<registrations, factory, qr_data, storage, users, boxes, items, files, session, tokens, now,
                   nextUserId, nextBoxId, nextItemId>>
    /\ resp' = IF Passed(OwnsBoxGuard("view_box", b))
               THEN RenderData("view_box", b, "boxdetail.html", b,
                               {BoxRow(b)} \cup {ItemRow(i) : i \in ItemsOf(b)})
               ELSE OwnsBoxGuard("view_box", b)

\* routes/boxes.py edit_box
EditBox(b, form, k, del_ok, img_ok) ==
    /\ UNCHANGED <<registrations, factory, qr_data, storage, users, items, session, tokens, now,
                   nextUserId, nextBoxId, nextItemId>>
    /\ IF ~Passed(OwnsBoxGuard("edit_box", b))
       THEN /\ resp' = OwnsBoxGuard("edit_box", b)
            /\ UNCHANGED <<boxes, files>>
       ELSE IF ~(form.submit /\ form.valid)
       THEN /\ resp' = RenderData("edit_box", b, "boxform.html", b, {BoxRow(b)})
            /\ UNCHANGED <<boxes, files>>
       ELSE LET old == boxes[b].image_path
                new == save_image(b, k, img_ok)
            IN  /\ IF form.delete_image /\ old # NoPath
                   THEN /\ files' = FilesAfterDelete(files, old, del_ok)
                        /\ boxes' = [boxes EXCEPT ![b].name = form.name,
                                                  ![b].image_path = NoPath]
                   ELSE IF form.image
                   THEN /\ files' = FilesAfterSave(
                                       FilesAfterDelete(files, old, del_ok), new)
                        /\ boxes' = [boxes EXCEPT ![b].name = form.name,
                                        ![b].image_path =
                                            IF new # NoPath THEN new ELSE old]
                   ELSE /\ files' = files
                        /\ boxes' = [boxes EXCEPT ![b].name = form.name]
                /\ resp' = Redirect("edit_box", b, "Box updated successfully!",
                                    "boxes.view_box", b)

\* routes/boxes.py delete_box
DeleteBox(b, del_image_ok, del_qr_ok) ==
    /\ UNCHANGED <<registrations, factory, storage, users, session, tokens, now, nextUserId, nextBoxId, nextItemId>>
    /\ IF ~Passed(OwnsBoxGuard("delete_box", b))
       THEN /\ resp' = OwnsBoxGuard("delete_box", b)
            /\ UNCHANGED <<boxes, items, files, qr_data>>
       ELSE /\ files' = FilesAfterDelete(
                           FilesAfterDelete(files, boxes[b].image_path, del_image_ok),
                           boxes[b].qr_code_path, del_qr_ok)
            /\ qr_data' = QrDataAfter(qr_data, files', NoPath, b)
            /\ boxes' = Restrict(boxes, DOMAIN boxes \ {b})
            /\ items' = Restrict(items, DOMAIN items \ ItemsOf(b))
            /\ resp' = Redirect("delete_box", b, "Box deleted successfully!",
                                "boxes.dashboard", 0)

\* routes/boxes.py regenerate_qr
RegenerateQr(b, del_ok, qr_ok) ==
    /\ UNCHANGED <<registrations, factory, storage, users, items, session, tokens, now,
                   nextUserId, nextBoxId, nextItemId>>
    /\ IF ~Passed(OwnsBoxGuard("regenerate_qr", b))
       THEN /\ resp' = OwnsBoxGuard("regenerate_qr", b)
            /\ UNCHANGED <<boxes, files, qr_data>>
       ELSE LET old_path == boxes[b].qr_code_path
                done == regenerate_for_box(files, b, old_path, del_ok, qr_ok)
                new_path == done.path
            IN  /\ files' = done.files
                /\ qr_data' = QrDataAfter(qr_data, files', new_path, b)
                /\ IF new_path # NoPath
                   THEN /\ boxes' = [boxes EXCEPT ![b].qr_code_path = new_path]
                        /\ resp' = Redirect("regenerate_qr", b,
                                            "QR code regenerated successfully!",
                                            "boxes.view_box", b)
                   ELSE /\ UNCHANGED boxes
                        /\ resp' = Redirect("regenerate_qr", b,
                                            "Error regenerating QR code.",
                                            "boxes.view_box", b)

\* routes/scanner.py scan_redirect
ScanRedirect(b) ==
    /\ UNCHANGED <<registrations, factory, qr_data, storage, users, boxes, items, files, session, tokens, now,
                   nextUserId, nextBoxId, nextItemId>>
    /\ resp' = IF ~is_authenticated THEN Unauthorized("scan_redirect", b)
               ELSE IF b \notin DOMAIN boxes THEN NotFound("scan_redirect", b)
               ELSE IF ~BoxIsOwnedBy(b, current_user)
               THEN Redirect("scan_redirect", b, MsgScanDenied, "boxes.dashboard", 0)
               ELSE Redirect("scan_redirect", b, "", "boxes.view_box", b)

\* ------------------------------------------------------------ item routes
\* forms.py ItemForm as submitted
ItemForm(submit, name_ok, name, quantity, has_value, value) ==
    [submit |-> submit, name_ok |-> name_ok, name |-> name,
     quantity |-> quantity, has_value |-> has_value, value |-> value,
     category |-> <<>>]

\* the same submission with the category field filled in
ItemFormIn(form, category) == [form EXCEPT !.category = category]

ItemForms ==
    {ItemForm(FALSE, TRUE, 1, 1, FALSE, 0), ItemForm(TRUE, FALSE, 1, 1, FALSE, 0)}
    \cup {ItemForm(TRUE, TRUE, 1, q, FALSE, 0) : q \in QtyInputs}
    \cup {ItemForm(TRUE, TRUE, 1, q, TRUE, v) : q \in QtyInputs, v \in ValueInputs}

\* forms.py ItemForm validators: DataRequired and NumberRange(min=0) on
\* quantity, Optional and NumberRange(min=0) on value
ItemFormValid(form) ==
    /\ form.name_ok
    /\ form.quantity # 0
    /\ form.quantity >= 0
    /\ (form.has_value => form.value >= 0)

\* float(form.value.data) if form.value.data else 0.0
ItemFormValue(form) == IF form.has_value /\ form.value # 0 THEN form.value ELSE 0

\* routes/items.py create_item
CreateItem(b, form) ==
    /\ UNCHANGED <<registrations, factory, qr_data, storage, users, boxes, files, session, tokens, now, nextUserId, nextBoxId>>
    /\ IF ~Passed(OwnsBoxGuard("create_item", b))
       THEN /\ resp' = OwnsBoxGuard("create_item", b)
            /\ UNCHANGED <<items, nextItemId>>
       ELSE IF ~(form.submit /\ ItemFormValid(form))
       THEN /\ resp' = RenderData("create_item", b, "itemform.html", b, {BoxRow(b)})
            /\ UNCHANGED <<items, nextItemId>>
       ELSE /\ nextItemId <= MaxItems
            /\ items' = items @@ (nextItemId :>
                   [name |-> form.name, copies |-> 0, quantity |-> form.quantity,
                    value |-> ItemFormValue(form), value_null |-> FALSE,
                    category |-> form.category, box_id |-> b])
            /\ nextItemId' = nextItemId + 1
            /\ resp' = Redirect("create_item", b, "Item added to box!",
                                "boxes.view_box", b)

\* routes/items.py edit_item
EditItem(i, form) ==
    /\ UNCHANGED <<registrations, factory, qr_data, storage, users, boxes, files, session, tokens, now,
                   nextUserId, nextBoxId, nextItemId>>
    /\ IF ~Passed(OwnsItemGuard("edit_item", i))
       THEN /\ resp' = OwnsItemGuard("edit_item", i)
            /\ UNCHANGED items
       ELSE IF ~(form.submit /\ ItemFormValid(form))
       THEN /\ resp' = RenderData("edit_item", i, "itemform.html", items[i].box_id,
                                  {ItemRow(i), BoxRow(items[i].box_id)})
            /\ UNCHANGED items
       ELSE /\ items' = [items EXCEPT ![i].name = form.name, ![i].copies = 0,
                                      ![i].quantity = form.quantity,
                                      ![i].value = ItemFormValue(form),
                                      ![i].value_null = FALSE,
                                      ![i].category = form.category]
            /\ resp' = Redirect("edit_item", i, "Item updated successfully!",
                                "boxes.view_box", items[i].box_id)

\* routes/items.py delete_item
DeleteItem(i) ==
    /\ UNCHANGED <<registrations, factory, qr_data, storage, users, boxes, files, session, tokens, now,
                   nextUserId, nextBoxId, nextItemId>>
    /\ IF ~Passed(OwnsItemGuard("delete_item", i))
       THEN /\ resp' = OwnsItemGuard("delete_item", i)
            /\ UNCHANGED items
       ELSE /\ items' = Restrict(items, DOMAIN items \ {i})
            /\ resp' = Redirect("delete_item", i, "Item deleted successfully!",
                                "boxes.view_box", items[i].box_id)

\* move_item accepting every existing destination
MoveTargetAllowedAny(new_box_id) == new_box_id \in DOMAIN boxes

\* routes/items.py move_item: "Verify user owns the destination box"
MoveTargetAllowed(new_box_id) == BoxIsOwnedBy(new_box_id, current_user)

\* routes/items.py move_item: the response to a request to move item i to
\* new_box_id; new_box_id = 0 stands for a form without a destination
MoveItemResponse(i, new_box_id) ==
    IF ~Passed(OwnsItemGuard("move_item", i)) THEN OwnsItemGuard("move_item", i)
    ELSE IF new_box_id = 0
    THEN Redirect("move_item", i, MsgMoveNoTarget, "boxes.view_box", items[i].box_id)
    ELSE IF new_box_id \notin DOMAIN boxes THEN NotFound("move_item", i)
    ELSE IF ~MoveTargetAllowed(new_box_id)
    THEN Redirect("move_item", i, MsgMoveDenied, "boxes.view_box", items[i].box_id)
    ELSE Redirect("move_item", i, "Item moved", "boxes.view_box", new_box_id)

\* routes/items.py move_item
MoveItem(i, new_box_id) ==
    /\ UNCHANGED <<registrations, factory, qr_data, storage, users, boxes, files, session, tokens, now,
                   nextUserId, nextBoxId, nextItemId>>
    /\ resp' = MoveItemResponse(i, new_box_id)
    /\ IF MoveItemResponse(i, new_box_id).flash = "Item moved"
       THEN items' = [items EXCEPT ![i].box_id = new_box_id]
       ELSE UNCHANGED items

\* routes/items.py duplicate_item
DuplicateItem(i) ==
    /\ UNCHANGED <<registrations, factory, qr_data, storage, users, boxes, files, session, tokens, now, nextUserId, nextBoxId>>
    /\ IF ~Passed(OwnsItemGuard("duplicate_item", i))
       THEN /\ resp' = OwnsItemGuard("duplicate_item", i)
            /\ UNCHANGED <<items, nextItemId>>
       ELSE /\ nextItemId <= MaxItems
            /\ items' = items @@ (nextItemId :>
                   [items[i] EXCEPT !.copies = items[i].copies + 1])
            /\ nextItemId' = nextItemId + 1
            /\ resp' = Redirect("duplicate_item", i, "Item duplicated successfully!",
                                "boxes.view_box", items[i].box_id)

\* ----------------------------------------------------------------- search
\* Text is a sequence of one-character atoms. The name columns hold atoms;
\* name n is spelled "A" followed by n letters "b".
Spelling(n) == <<"A">> \o [k \in 1..n |-> "b"]

\* the categories typed into the item form; <<>> is the field left blank
Categories == {<<>>, <<"C">>, <<"a", "b">>}

\* the q and category parameters of a search request
Queries == {<<>>, <<" ">>, <<"a">>, <<"a", "B">>, <<"c">>, <<"%">>, <<"_", "c">>}
CategoryFilters == {<<>>, <<"C">>, <<"c", " ">>}
SearchTypes == {"all", "boxes", "items", "none"}

\* str.strip()
strip_whitespace(s) ==
    LET kept == {i \in 1..Len(s) : s[i] # " "}
    IN  IF kept = {} THEN <<>>
        ELSE SubSeq(s, CHOOSE i \in kept : \A j \in kept : i <= j,
                       CHOOSE i \in kept : \A j \in kept : i >= j)

\* one character without its case
lower(c) == CASE c = "A" -> "a" [] c = "B" -> "b" [] c = "C" -> "c" [] OTHER -> c

\* SQL LIKE without case: "%" stands for any text, "_" for any character
RECURSIVE like(_, _)
like(pattern, text) ==
    IF pattern = <<>> THEN text = <<>>
    ELSE IF Head(pattern) = "%"
    THEN \/ like(Tail(pattern), text)
         \/ text # <<>> /\ like(pattern, Tail(text))
    ELSE /\ text # <<>>
         /\ Head(pattern) = "_" \/ lower(Head(pattern)) = lower(Head(text))
         /\ like(Tail(pattern), Tail(text))

\* column.ilike(f'%{query}%')
ilike(text, query) == like(<<"%">> \o query \o <<"%">>, text)

\* routes/scanner.py search. Of the columns searched, the model carries the
\* name of a box and the name and category of an item.
Search(q, search_type, category) ==
    /\ UNCHANGED <<registrations, factory, qr_data, storage, users, boxes, items, files, session, tokens, now,
                   nextUserId, nextBoxId, nextItemId>>
    /\ resp' =
         IF ~is_authenticated THEN Unauthorized("search", 0)
         ELSE LET query == strip_whitespace(q)
                  category_filter == strip_whitespace(category)
                  box_ids == BoxesOf(current_user)
                  boxes_results ==
                      IF query # <<>> /\ search_type \in {"all", "boxes"}
                      THEN {b \in DOMAIN boxes :
                               /\ boxes[b].user_id = current_user
                               /\ ilike(Spelling(boxes[b].name), query)}
                      ELSE {}
                  items_results ==
                      IF query # <<>> /\ search_type \in {"all", "items"} /\ box_ids # {}
                      THEN {i \in DOMAIN items :
                               /\ items[i].box_id \in box_ids
                               /\ \/ ilike(Spelling(items[i].name), query)
                                  \/ ilike(items[i].category, query)
                               /\ category_filter # <<>>
                                     => items[i].category = category_filter}
                      ELSE {}
                  categories ==
                      IF box_ids # {}
                      THEN {items[i].category :
                               i \in {j \in DOMAIN items :
                                         /\ items[j].box_id \in box_ids
                                         /\ items[j].category # <<>>}}
                      ELSE {}
              IN  RenderData("search", 0, "search.html", 0,
                             [boxes_results |-> {BoxRow(b) : b \in boxes_results},
                              items_results |-> {ItemRow(i) : i \in items_results},
                              categories |-> categories])

\* ------------------------------------------------------------ back-office
\* is_accessible without the is_admin test
is_accessible_any_user == is_authenticated

\* admin.py SecureModelView.is_accessible, SecureAdminIndexView.index
is_accessible == is_authenticated /\ users[current_user].is_admin

\* admin.py inaccessible_callback
Inaccessible(op, id) == Redirect(op, id, "", "auth.login", 0)

AllRows ==
    {UserRow(u) : u \in DOMAIN users} \cup {BoxRow(b) : b \in DOMAIN boxes}
    \cup {ItemRow(i) : i \in DOMAIN items}

AdminViews == {"admin.index", "users", "boxes", "items"}

\* admin.py: the index and the list views of the three model views
AdminView(view) ==
    /\ UNCHANGED <<registrations, factory, qr_data, storage, users, boxes, items, files, session, tokens, now,
                   nextUserId, nextBoxId, nextItemId>>
    /\ resp' = IF ~is_accessible THEN Inaccessible(view, 0)
               ELSE RenderData(view, 0, "admin", 0,
                               {r \in AllRows : r.table = view})

\* admin.py UserAdminView: the edit form saved with the is_admin box set to a
AdminSetAdmin(u, a) ==
    /\ UNCHANGED <<registrations, factory, qr_data, storage, boxes, items, files, session, tokens, now,
                   nextUserId, nextBoxId, nextItemId>>
    /\ IF ~is_accessible
       THEN /\ resp' = Inaccessible("admin.edit_user", u)
            /\ UNCHANGED users
       ELSE IF u \notin DOMAIN users
       THEN /\ resp' = Redirect("admin.edit_user", u, "Record does not exist.",
                                "admin.users", 0)
            /\ UNCHANGED users
       ELSE /\ users' = [users EXCEPT ![u].is_admin = a]
            /\ resp' = Redirect("admin.edit_user", u, "Record was successfully saved.",
                                "admin.users", 0)

\* deleting a user without the cascade to the user's boxes
AdminDeleteUserNoCascade(u) ==
    /\ UNCHANGED <<registrations, factory, qr_data, storage, files, session, tokens, now, nextUserId, nextBoxId,
                   nextItemId, boxes, items>>
    /\ IF ~is_accessible
       THEN /\ resp' = Inaccessible("admin.delete_user", u)
            /\ UNCHANGED users
       ELSE IF u \notin DOMAIN users
       THEN /\ resp' = Redirect("admin.delete_user", u, "Record does not exist.",
                                "admin.users", 0)
            /\ UNCHANGED users
       ELSE /\ users' = Restrict(users, DOMAIN users \ {u})
            /\ resp' = Redirect("admin.delete_user", u,
                                "Record was successfully deleted.", "admin.users", 0)

\* admin.py UserAdminView: delete; the relationships cascade to the user's
\* boxes and their items
AdminDeleteUser(u) ==
    /\ UNCHANGED <<registrations, factory, qr_data, storage, files, session, tokens, now, nextUserId, nextBoxId, nextItemId>>
    /\ IF ~is_accessible
       THEN /\ resp' = Inaccessible("admin.delete_user", u)
            /\ UNCHANGED <<users, boxes, items>>
       ELSE IF u \notin DOMAIN users
       THEN /\ resp' = Redirect("admin.delete_user", u, "Record does not exist.",
                                "admin.users", 0)
            /\ UNCHANGED <<users, boxes, items>>
       ELSE /\ users' = Restrict(users, DOMAIN users \ {u})
            /\ boxes' = Restrict(boxes, DOMAIN boxes \ BoxesOf(u))
            /\ items' = Restrict(items,
                   {i \in DOMAIN items : items[i].box_id \notin BoxesOf(u)})
            /\ resp' = Redirect("admin.delete_user", u,
                                "Record was successfully deleted.", "admin.users", 0)

\* admin.py BoxAdminView: the edit form saved with another owner selected
AdminEditBox(b, owner) ==
    /\ UNCHANGED <<registrations, factory, qr_data, storage, users, items, files, session, tokens, now,
                   nextUserId, nextBoxId, nextItemId>>
    /\ IF ~is_accessible
       THEN /\ resp' = Inaccessible("admin.edit_box", b)
            /\ UNCHANGED boxes
       ELSE IF b \notin DOMAIN boxes \/ owner \notin DOMAIN users
       THEN /\ resp' = Redirect("admin.edit_box", b, "Record does not exist.",
                                "admin.boxes", 0)
            /\ UNCHANGED boxes
       ELSE /\ boxes' = [boxes EXCEPT ![b].user_id = owner]
            /\ resp' = Redirect("admin.edit_box", b, "Record was successfully saved.",
                                "admin.boxes", 0)

\* a table items without CHECK constraints
CheckViolationNever(quantity, value_null, value) == FALSE

\* models/item.py __table_args__: the CHECK constraints quantity >= 0 and
\* value >= 0 reject the row; a NULL value passes its CHECK
CheckViolation(quantity, value_null, value) ==
    quantity < 0 \/ (~value_null /\ value < 0)

\* admin.py ItemAdminView: the edit form saved with a quantity and a value
\* (value_null for an empty value field); the form has no range validators,
\* and a commit the database rejects is rolled back and reported
AdminEditItem(i, quantity, value_null, value) ==
    /\ UNCHANGED <<registrations, factory, qr_data, storage, users, boxes, files, session,
                   tokens, now, nextUserId, nextBoxId, nextItemId>>
    /\ IF ~is_accessible
       THEN /\ resp' = Inaccessible("admin.edit_item", i)
            /\ UNCHANGED items
       ELSE IF i \notin DOMAIN items
       THEN /\ resp' = Redirect("admin.edit_item", i, "Record does not exist.",
                                "admin.items", 0)
            /\ UNCHANGED items
       ELSE IF CheckViolation(quantity, value_null, value)
       THEN /\ resp' = Render("admin.edit_item", i, "Integrity error.",
                              "admin/model/edit.html", i)
            /\ UNCHANGED items
       ELSE /\ items' = [items EXCEPT ![i].quantity = quantity,
                                      ![i].value_null = value_null,
                                      ![i].value = IF value_null THEN 0 ELSE value]
            /\ resp' = Redirect("admin.edit_item", i, "Record was successfully saved.",
                                "admin.items", 0)

\* models/box.py Box.item_count
item_count(b) == Cardinality(ItemsOf(b))

\* Box.total_value adding the unit values without the quantities
RECURSIVE total_value_of_units(_, _)
total_value_of_units(b, n) ==
    IF n > MaxItems THEN 0
    ELSE (IF n \in ItemsOf(b) /\ ~items[n].value_null THEN items[n].value ELSE 0)
         + total_value_of_units(b, n + 1)

\* models/box.py Box.total_value: the loop over the box's items from item n
\* on; "if item.value" skips a NULL and a zero value
RECURSIVE total_value(_, _)
total_value(b, n) ==
    IF n > MaxItems THEN 0
    ELSE (IF n \in ItemsOf(b) /\ ~items[n].value_null /\ items[n].value # 0
          THEN items[n].value * items[n].quantity ELSE 0)
         + total_value(b, n + 1)

\* models/box.py Box.total_items: the sum over the box's items from item n on
RECURSIVE total_items(_, _)
total_items(b, n) ==
    IF n > MaxItems THEN 0
    ELSE (IF n \in ItemsOf(b) THEN items[n].quantity ELSE 0) + total_items(b, n + 1)

\* ------------------------------------------------------- specifications
\* Spec: the box, item and scanner routes with a reliable storage backend,
\* and the back-office changing the owner of a box.
Next ==
    \/ \E submit, valid \in BOOLEAN, n \in Names, e \in Emails :
          Register(submit, valid, n, e, 1)
    \/ \E submit \in BOOLEAN, n \in Names, p \in Passwords : Login(submit, n, p)
    \/ Logout
    \/ Dashboard
    \/ \E form \in BoxForms, k \in Suffixes : CreateBox(form, k, TRUE, TRUE)
    \/ \E b \in BoxIds : ViewBox(b)
    \/ \E b \in BoxIds, form \in BoxForms, k \in Suffixes :
          EditBox(b, form, k, TRUE, TRUE)
    \/ \E b \in BoxIds : DeleteBox(b, TRUE, TRUE)
    \/ \E b \in BoxIds : RegenerateQr(b, TRUE, TRUE)
    \/ \E b \in BoxIds : ScanRedirect(b)
    \/ \E b \in BoxIds, form \in {f \in ItemForms : ~f.has_value} :
          CreateItem(b, form)
    \/ \E i \in ItemIds, form \in {f \in ItemForms : ~f.has_value} :
          EditItem(i, form)
    \/ \E i \in ItemIds : DeleteItem(i)
    \/ \E i \in ItemIds, new_box_id \in 0..MaxBoxes : MoveItem(i, new_box_id)
    \/ \E i \in ItemIds : DuplicateItem(i)
    \/ \E b \in BoxIds, owner \in UserIds : AdminEditBox(b, owner)

Spec == Init /\ [][Next]_vars

\* SpecAuth: accounts, sessions, password reset and the back-office.
NextAuth ==
    \/ \E submit, valid \in BOOLEAN, n \in Names, e \in Emails, p \in Passwords :
          Register(submit, valid, n, e, p)
    \/ \E submit \in BOOLEAN, n \in Names, p \in Passwords : Login(submit, n, p)
    \/ Logout
    \/ \E submit, mail_ok \in BOOLEAN, e \in Emails : ForgotPassword(submit, e, mail_ok)
    \/ \E t \in TokenInputs, submit \in BOOLEAN, p \in Passwords :
          ResetPassword(t, submit, p)
    \/ Tick
    \/ \E view \in AdminViews : AdminView(view)
    \/ \E u \in UserIds, a \in BOOLEAN : AdminSetAdmin(u, a)
    \/ \E u \in UserIds : AdminDeleteUser(u)

SpecAuth == Init /\ [][NextAuth]_vars

\* SpecData: accounts, boxes and items together with the back-office, with a
\* reliable storage backend and one submission per form.
NextData ==
    \/ \E n \in Names, e \in Emails : Register(TRUE, TRUE, n, e, 1)
    \/ \E n \in Names, p \in Passwords : Login(TRUE, n, p)
    \/ Logout
    \/ \E e \in Emails : ForgotPassword(TRUE, e, TRUE)
    \/ \E t \in tokens, p \in Passwords : ResetPassword(t, TRUE, p)
    \/ CreateBox(BoxForm(TRUE, TRUE, 1, FALSE, FALSE), 1, TRUE, TRUE)
    \/ \E b \in BoxIds : DeleteBox(b, TRUE, TRUE)
    \/ \E b \in BoxIds : CreateItem(b, ItemForm(TRUE, TRUE, 1, 1, FALSE, 0))
    \/ \E i \in ItemIds : DeleteItem(i)
    \/ \E i \in ItemIds, new_box_id \in BoxIds : MoveItem(i, new_box_id)
    \/ \E i \in ItemIds : DuplicateItem(i)
    \/ \E u \in UserIds, a \in BOOLEAN : AdminSetAdmin(u, a)
    \/ \E u \in UserIds : AdminDeleteUser(u)
    \/ \E b \in BoxIds, owner \in UserIds : AdminEditBox(b, owner)

SpecData == Init /\ [][NextData]_vars

\* SpecIO: the box routes of one logged-in user over a storage backend whose
\* writes and deletions may fail.
NextIO ==
    \/ Login(TRUE, 1, 1)
    \/ \E form \in BoxForms, k \in 1..MaxSuffix, qr_ok, img_ok \in BOOLEAN :
          CreateBox(form, k, qr_ok, img_ok)
    \/ \E b \in BoxIds, form \in BoxForms, k \in 1..MaxSuffix,
          del_ok, img_ok \in BOOLEAN :
          EditBox(b, form, k, del_ok, img_ok)
    \/ \E b \in BoxIds, del_image_ok, del_qr_ok \in BOOLEAN :
          DeleteBox(b, del_image_ok, del_qr_ok)
    \/ \E b \in BoxIds, del_ok, qr_ok \in BOOLEAN : RegenerateQr(b, del_ok, qr_ok)

SpecIO == Init /\ [][NextIO]_vars

\* SpecStorage: the storage service called directly, over the local backend
\* and over object-storage backends of several configurations, with remote
\* calls and disk operations that may fail.
StorageBackends ==
    {LocalStorageBackend}
    \cup {S3StorageBackend(bucket_name, region, endpoint_url, prefix) :
             bucket_name \in BucketNames, region \in Regions,
             endpoint_url \in EndpointUrls, prefix \in Prefixes}

\* the keys a backend generates
S3Keys(self) ==
    {S3_get_key(self, b, "qr", 1) : b \in BoxIds}
    \cup {S3_get_key(self, b, "box", k) : b \in BoxIds, k \in Suffixes}

NeverWritten(self) == self.prefix \o <<"/", "images", "/", "box_0_gone.jpg">>

\* the locations a caller may pass: stored ones, None, bare keys, a URL of
\* another site, and the URL of a key of this bucket that was never written
Locations(self) ==
    IF self.type = "local"
    THEN {NoPath} \cup {QrPath(b) : b \in BoxIds}
            \cup {ImagePath(b, k) : b \in BoxIds, k \in Suffixes}
    ELSE {<<>>, <<"https://", "cdn.example.com", "/", "logo.png">>}
            \cup S3Keys(self) \cup {S3_get_url(self, key) : key \in S3Keys(self)}
            \cup {S3_get_url(self, NeverWritten(self))}

\* the value a service call returned to its caller
Returned(op, arg, api, value, raised) ==
    [op |-> op, arg |-> arg, api |-> api, value |-> value, raised |-> raised]

InitStorage ==
    /\ users = (1 :> [username |-> 1, email |-> 1, password_hash |-> 1,
                      is_admin |-> TRUE])
    /\ boxes = <<>>
    /\ items = <<>>
    /\ files = {}
    /\ session = 0
    /\ tokens = {}
    /\ now = 0
    /\ nextUserId = 2
    /\ nextBoxId = 1
    /\ nextItemId = 1
    /\ resp = [op |-> "init", user |-> 0, id |-> 0, status |-> 200,
               flash |-> "", target |-> "", arg |-> 0, data |-> {},
               token |-> NoToken]
    /\ storage \in StorageBackends
    /\ qr_data = <<>>
    /\ apps = <<>>
    /\ storage_backends = <<>>
    /\ calls = [t \in Threads |-> Idle]
    /\ built = 0
    /\ registrations = [t \in Threads |-> NoRegistration]

\* StorageBackend.save_image called on the configured backend
StorageSaveImage(b, k, api) ==
    /\ UNCHANGED <<registrations, factory, qr_data, users, boxes, items, session, tokens, now,
                   nextUserId, nextBoxId, nextItemId>>
    /\ IF storage.type = "local"
       THEN /\ files' = FilesAfterSave(files, save_image(b, k, api = "ok"))
            /\ resp' = Returned("save_image", b, api,
                                save_image(b, k, api = "ok"), FALSE)
            /\ UNCHANGED storage
       ELSE LET done == S3_save(storage, S3_get_key(storage, b, "box", k), api)
            IN  /\ storage' = [storage EXCEPT !.objects = done.objects]
                /\ resp' = Returned("save_image", b, api, done.value, done.raised)
                /\ UNCHANGED files

\* StorageBackend.save_qr called on the configured backend
StorageSaveQr(b, api) ==
    /\ UNCHANGED <<registrations, factory, qr_data, users, boxes, items, session, tokens, now,
                   nextUserId, nextBoxId, nextItemId>>
    /\ IF storage.type = "local"
       THEN /\ files' = FilesAfterSave(files, save_qr(b, api = "ok"))
            /\ resp' = Returned("save_qr", b, api, save_qr(b, api = "ok"), FALSE)
            /\ UNCHANGED storage
       ELSE LET done == S3_save(storage, S3_get_key(storage, b, "qr", 1), api)
            IN  /\ storage' = [storage EXCEPT !.objects = done.objects]
                /\ resp' = Returned("save_qr", b, api, done.value, done.raised)
                /\ UNCHANGED files

\* StorageBackend.delete called on the configured backend
StorageDelete(file_path, api) ==
    /\ UNCHANGED <<registrations, factory, qr_data, users, boxes, items, session, tokens, now,
                   nextUserId, nextBoxId, nextItemId>>
    /\ IF storage.type = "local"
       THEN /\ files' = FilesAfterDelete(files, file_path, api = "ok")
            /\ resp' = Returned("delete", file_path, api,
                                delete(files, file_path, api = "ok"), FALSE)
            /\ UNCHANGED storage
       ELSE LET done == S3_delete(storage, file_path, api)
            IN  /\ storage' = [storage EXCEPT !.objects = done.objects]
                /\ resp' = Returned("delete", file_path, api, done.value, done.raised)
                /\ UNCHANGED files

\* StorageBackend.exists called on the configured backend
StorageExists(file_path, api) ==
    /\ UNCHANGED <<registrations, factory, qr_data, storage, users, boxes, items, files, session, tokens, now,
                   nextUserId, nextBoxId, nextItemId>>
    /\ resp' = IF storage.type = "local"
               THEN Returned("exists", file_path, api, exists(files, file_path), FALSE)
               ELSE Returned("exists", file_path, api,
                             S3_exists(storage, file_path, api).value,
                             S3_exists(storage, file_path, api).raised)

\* StorageBackend.get_url called on the configured backend
StorageGetUrl(file_path) ==
    /\ UNCHANGED <<registrations, factory, qr_data, storage, users, boxes, items, files, session, tokens, now,
                   nextUserId, nextBoxId, nextItemId>>
    /\ resp' = IF storage.type = "local"
               THEN Returned("get_url", file_path, "ok", get_url(file_path), FALSE)
               ELSE Returned("get_url", file_path, "ok",
                             S3_get_url_of(storage, file_path), FALSE)

NextStorage ==
    \/ \E b \in BoxIds, k \in Suffixes, api \in ApiOutcomes : StorageSaveImage(b, k, api)
    \/ \E b \in BoxIds, api \in ApiOutcomes : StorageSaveQr(b, api)
    \/ \E file_path \in Locations(storage), api \in ApiOutcomes :
          StorageDelete(file_path, api)
    \/ \E file_path \in Locations(storage), api \in ApiOutcomes :
          StorageExists(file_path, api)
    \/ \E file_path \in Locations(storage) : StorageGetUrl(file_path)

SpecStorage == InitStorage /\ [][NextStorage]_vars

\* SpecItems: one administrator's boxes and items, changed through the item
\* routes and through the back-office.
NextItems ==
    \/ Login(TRUE, 1, 1)
    \/ CreateBox(BoxForm(TRUE, TRUE, 1, FALSE, FALSE), 1, TRUE, TRUE)
    \/ \E b \in BoxIds, form \in ItemForms : CreateItem(b, form)
    \/ \E i \in ItemIds, form \in ItemForms : EditItem(i, form)
    \/ \E i \in ItemIds : DeleteItem(i)
    \/ \E i \in ItemIds, new_box_id \in BoxIds : MoveItem(i, new_box_id)
    \/ \E i \in ItemIds : DuplicateItem(i)
    \/ \E i \in ItemIds, quantity \in QtyInputs, value_null \in BOOLEAN,
          value \in ValueInputs : AdminEditItem(i, quantity, value_null, value)

SpecItems == Init /\ [][NextItems]_vars

\* SpecSearch: two accounts, their boxes and items with categories, the
\* back-office moving a box to another owner, the dashboard and the search.
NextSearch ==
    \/ Register(TRUE, TRUE, 2, 2, 1)
    \/ \E n \in Names : Login(TRUE, n, 1)
    \/ CreateBox(BoxForm(TRUE, TRUE, 1, FALSE, FALSE), 1, TRUE, TRUE)
    \/ \E b \in BoxIds, category \in Categories :
          CreateItem(b, ItemFormIn(ItemForm(TRUE, TRUE, 1, 1, FALSE, 0), category))
    \/ \E b \in BoxIds, owner \in UserIds : AdminEditBox(b, owner)
    \/ Dashboard
    \/ \E q \in Queries, search_type \in SearchTypes, category \in CategoryFilters :
          Search(q, search_type, category)

SpecSearch == Init /\ [][NextSearch]_vars

\* SpecRegister: registrations handled by concurrent request threads on a
\* database that starts without accounts.
InitRegister ==
    /\ users = <<>>
    /\ boxes = <<>>
    /\ items = <<>>
    /\ files = {}
    /\ session = 0
    /\ tokens = {}
    /\ now = 0
    /\ nextUserId = 1
    /\ nextBoxId = 1
    /\ nextItemId = 1
    /\ resp = [op |-> "init", user |-> 0, id |-> 0, status |-> 200,
               flash |-> "", target |-> "", arg |-> 0, data |-> {},
               token |-> NoToken]
    /\ storage = LocalStorageBackend
    /\ qr_data = <<>>
    /\ apps = <<>>
    /\ storage_backends = <<>>
    /\ calls = [t \in Threads |-> Idle]
    /\ built = 0
    /\ registrations = [t \in Threads |-> NoRegistration]

\* a users table without UNIQUE constraints
UniqueViolationNever(n, e) == FALSE

\* models/user.py: the UNIQUE constraints on users.username and users.email
\* reject the insertion of a row with username n and email e
UniqueViolation(n, e) == UserByUsername(n) # 0 \/ UserByEmail(e) # 0

\* routes/auth.py register up to the end of form validation, which runs
\* validate_username and validate_email against the committed rows
RegisterValidate(t, submit, valid, n, e, p) ==
    /\ UNCHANGED <<factory, qr_data, storage, users, boxes, items, files, session,
                   tokens, now, nextUserId, nextBoxId, nextItemId>>
    /\ registrations[t] = NoRegistration
    /\ IF is_authenticated
       THEN /\ resp' = Redirect("register", 0, "You are already registered and logged in!",
                                "boxes.dashboard", 0)
            /\ UNCHANGED registrations
       ELSE IF submit /\ valid /\ UserByUsername(n) = 0 /\ UserByEmail(e) = 0
       THEN /\ registrations' = [registrations EXCEPT ![t] =
                   [pc |-> "validated", username |-> n, email |-> e, password |-> p]]
            /\ UNCHANGED resp
       ELSE /\ resp' = Render("register", 0, "", "register.html", 0)
            /\ UNCHANGED registrations

\* routes/auth.py register from db.session.add to the response: the commit
\* raises IntegrityError when a constraint rejects the row, and the 500
\* handler rolls the transaction back
RegisterCommit(t) ==
    /\ UNCHANGED <<factory, qr_data, storage, boxes, items, files, session,
                   tokens, now, nextBoxId, nextItemId>>
    /\ registrations[t].pc = "validated"
    /\ registrations' = [registrations EXCEPT ![t] = NoRegistration]
    /\ IF UniqueViolation(registrations[t].username, registrations[t].email)
       THEN /\ resp' = Response("register", 0, 500, "", "errors/500.html", 0, {})
            /\ UNCHANGED <<users, nextUserId>>
       ELSE /\ nextUserId <= MaxUsers
            /\ users' = users @@ (nextUserId :>
                   [username |-> registrations[t].username,
                    email |-> registrations[t].email,
                    password_hash |-> registrations[t].password,
                    is_admin |-> FALSE])
            /\ nextUserId' = nextUserId + 1
            /\ resp' = Redirect("register", 0, "Account created successfully",
                                "auth.login", 0)

NextRegister ==
    \/ \E t \in Threads, submit, valid \in BOOLEAN, n \in Names, e \in Emails,
          p \in Passwords : RegisterValidate(t, submit, valid, n, e, p)
    \/ \E t \in Threads : RegisterCommit(t)

SpecRegister == InitRegister /\ [][NextRegister]_vars

\* SpecFactory: applications are created and disposed, request threads call
\* get_storage_backend, and the cache is reset.
\* the STORAGE_BACKEND settings an application is configured with
AppConfigs == {[STORAGE_BACKEND |-> "local"], [STORAGE_BACKEND |-> "s3"]}

\* create_app: a new application object; the allocator places it at any
\* address no live object occupies, also one a disposed application had
CreateApp(a, config) ==
    /\ UNCHANGED <<registrations, qr_data, storage, users, boxes, items, files,
                   session, tokens, now, nextUserId, nextBoxId, nextItemId>>
    /\ a \notin DOMAIN apps
    /\ apps' = apps @@ (a :> config)
    /\ UNCHANGED <<storage_backends, calls, built>>
    /\ resp' = Returned("create_app", a, "ok", config, FALSE)

\* an application object no request uses any more is collected; nothing
\* removes its entry from _storage_backends
DisposeApp(a) ==
    /\ UNCHANGED <<registrations, qr_data, storage, users, boxes, items, files,
                   session, tokens, now, nextUserId, nextBoxId, nextItemId>>
    /\ a \in DOMAIN apps
    /\ \A t \in Threads : calls[t].app # a
    /\ apps' = Restrict(apps, DOMAIN apps \ {a})
    /\ UNCHANGED <<storage_backends, calls, built>>
    /\ resp' = Returned("dispose_app", a, "ok", apps[a], FALSE)

\* get_storage_backend up to the cache test: a cached instance is returned,
\* otherwise the thread goes on to construct one
GetStorageBackendLookup(t, a) ==
    /\ UNCHANGED <<registrations, qr_data, storage, users, boxes, items, files,
                   session, tokens, now, nextUserId, nextBoxId, nextItemId>>
    /\ calls[t] = Idle
    /\ a \in DOMAIN apps
    /\ UNCHANGED <<apps, storage_backends, built>>
    /\ IF a \in DOMAIN storage_backends
       THEN /\ resp' = Returned("get_storage_backend", a, "ok",
                                storage_backends[a], FALSE)
            /\ UNCHANGED calls
       ELSE /\ calls' = [calls EXCEPT ![t] = [pc |-> "missed", app |-> a]]
            /\ UNCHANGED resp

\* get_storage_backend after a miss: the backend is constructed from the
\* application's configuration, stored under id(app) and returned
GetStorageBackendBuild(t) ==
    /\ UNCHANGED <<registrations, qr_data, storage, users, boxes, items, files,
                   session, tokens, now, nextUserId, nextBoxId, nextItemId>>
    /\ calls[t].pc = "missed"
    /\ built < MaxBuilt
    /\ LET a == calls[t].app
           backend == [serial |-> built + 1, config |-> apps[a]]
       IN  /\ storage_backends' =
                 [x \in DOMAIN storage_backends \cup {a} |->
                     IF x = a THEN backend ELSE storage_backends[x]]
           /\ resp' = Returned("get_storage_backend", a, "ok", backend, FALSE)
    /\ built' = built + 1
    /\ calls' = [calls EXCEPT ![t] = Idle]
    /\ UNCHANGED apps

\* reset_storage_backend
ResetStorageBackend ==
    /\ UNCHANGED <<registrations, qr_data, storage, users, boxes, items, files,
                   session, tokens, now, nextUserId, nextBoxId, nextItemId>>
    /\ storage_backends' = <<>>
    /\ UNCHANGED <<apps, calls, built>>
    /\ resp' = Returned("reset_storage_backend", 0, "ok", 0, FALSE)

NextFactory ==
    \/ \E a \in Addresses, config \in AppConfigs : CreateApp(a, config)
    \/ \E a \in Addresses : DisposeApp(a)
    \/ \E t \in Threads, a \in Addresses : GetStorageBackendLookup(t, a)
    \/ \E t \in Threads : GetStorageBackendBuild(t)
    \/ ResetStorageBackend

SpecFactory == Init /\ [][NextFactory]_vars

\* ---------------------------------------------------------------- claims
BoxDecoratedOps == {"view_box", "edit_box", "delete_box", "regenerate_qr",
                    "create_item"}
BoxGuardedOps == BoxDecoratedOps \cup {"scan_redirect"}
ItemGuardedOps == {"edit_item", "delete_item", "move_item", "duplicate_item"}
AdminOps == {"admin.edit_user", "admin.delete_user", "admin.edit_box"}
    \cup AdminViews
DeniedMessages == {MsgBoxDenied, MsgScanDenied, MsgItemDenied}

\* the step answers a request to one of the handlers ops: it is no step of
\* the clock, which leaves the last response in place
Answers(ops) == now' = now /\ resp'.op \in ops

\* the step answers a request to one of the handlers ops made by a
\* logged-in user
RequestStep(ops) == Answers(ops) /\ is_authenticated

\* the response is the permission-denied redirect with message msgs
IsDenial(r, msgs) ==
    /\ r.status = 302
    /\ r.flash \in msgs
    /\ r.target = "boxes.dashboard"
    /\ r.data = {}

\* C1: every owner-guarded box operation (view_box, edit_box, delete_box,
\* regenerate_qr, create_item, scan_redirect) issued by a logged-in user on
\* a box owned by another user is answered with the permission-denied
\* redirect and leaves the boxes, the items and the stored files unchanged.
C1_NonOwnerBoxDenied ==
    [][(/\ RequestStep(BoxGuardedOps)
        /\ resp'.id \in DOMAIN boxes
        /\ ~BoxIsOwnedBy(resp'.id, current_user))
       => /\ IsDenial(resp', {MsgBoxDenied, MsgScanDenied})
          /\ UNCHANGED <<boxes, items, files>>]_vars

\* a non-owner was denied the deletion of a box that holds an item and has
\* an image and a QR file in storage
C1_Witness ==
    /\ resp.op = "delete_box"
    /\ IsDenial(resp, {MsgBoxDenied})
    /\ resp.user # 0
    /\ resp.id \in DOMAIN boxes
    /\ boxes[resp.id].user_id # resp.user
    /\ ItemsOf(resp.id) # {}
    /\ boxes[resp.id].image_path \in files
    /\ boxes[resp.id].qr_code_path \in files

\* C2: Item.is_owned_by(u) equals is_owned_by(u) of the item's parent box,
\* and every item operation (edit_item, delete_item, move_item,
\* duplicate_item) issued by a logged-in user for whom it is false is
\* answered with the permission-denied redirect and leaves all items
\* unchanged.
C2_NonOwnerItemDenied ==
    /\ [](\A i \in DOMAIN items, u \in UserIds :
             /\ items[i].box_id \in DOMAIN boxes
             /\ ItemIsOwnedBy(i, u) = (boxes[items[i].box_id].user_id = u))
    /\ [][(/\ RequestStep(ItemGuardedOps)
           /\ resp'.id \in DOMAIN items
           /\ ~ItemIsOwnedBy(resp'.id, current_user))
          => /\ IsDenial(resp', {MsgItemDenied})
             /\ UNCHANGED <<items, nextItemId>>]_vars

\* a user who owns a box of their own was denied the move of an item that
\* lies in another user's box
C2_Witness ==
    /\ resp.op = "move_item"
    /\ IsDenial(resp, {MsgItemDenied})
    /\ resp.id \in DOMAIN items
    /\ resp.user # 0
    /\ boxes[items[resp.id].box_id].user_id # resp.user
    /\ BoxesOf(resp.user) # {}

\* C3: on a user route the box of an item changes only by move_item, only
\* for an item of the requesting user and only to a box that user owns; a
\* refused move leaves the items unchanged; and no user route changes the
\* user who owns an item.
C3_MoveKeepsOwner ==
    [][\A i \in DOMAIN items :
          /\ (resp'.flash = MsgMoveDenied => UNCHANGED items)
          /\ (resp'.op \notin AdminOps /\ i \in DOMAIN items')
             => /\ boxes'[items'[i].box_id].user_id = boxes[items[i].box_id].user_id
                /\ items'[i].box_id # items[i].box_id
                   => /\ resp'.op = "move_item"
                      /\ resp'.id = i
                      /\ boxes[items[i].box_id].user_id = current_user
                      /\ boxes[items'[i].box_id].user_id = current_user]_vars

\* a move to another user's box was refused
C3_Witness ==
    /\ resp.op = "move_item"
    /\ resp.flash = MsgMoveDenied
    /\ resp.id \in DOMAIN items
    /\ boxes[items[resp.id].box_id].user_id = resp.user
    /\ \E b \in DOMAIN boxes : boxes[b].user_id # resp.user

\* the response the guard of handler op gives a logged-in user for an
\* identifier that names no entity (0 is no primary key)
MissingOutcome(op) ==
    Outcome(IF op \in ItemGuardedOps THEN OwnsItemGuard(op, 0)
            ELSE OwnsBoxGuard(op, 0))

\* the step answers a logged-in user's request for an existing box or item
\* that another user owns
NotOwnedStep ==
    \/ /\ RequestStep(BoxGuardedOps)
       /\ resp'.id \in DOMAIN boxes
       /\ boxes[resp'.id].user_id # current_user
    \/ /\ RequestStep(ItemGuardedOps)
       /\ resp'.id \in DOMAIN items
       /\ boxes[items[resp'.id].box_id].user_id # current_user

\* the step answers a logged-in user's request for an identifier that names
\* no box or item
MissingStep ==
    \/ RequestStep(BoxGuardedOps) /\ resp'.id \notin DOMAIN boxes
    \/ RequestStep(ItemGuardedOps) /\ resp'.id \notin DOMAIN items

\* C4 as stated: the response to a logged-in user's request for a box or
\* item owned by someone else is the response the same request gets for an
\* identifier that names no entity.
C4_SameAsMissing ==
    [][NotOwnedStep => Outcome(resp') = MissingOutcome(resp'.op)]_vars

\* C4 amended: the response to a logged-in user's request for a box or item
\* owned by someone else is the permission redirect to the dashboard, which
\* carries no row and no identifier of the target, and it differs from the
\* not-found response the same request gets for an identifier that names no
\* entity.
C4_DeniedDiffersFromMissing ==
    [][NotOwnedStep
       => /\ resp'.status = 302
          /\ resp'.flash \in DeniedMessages
          /\ resp'.target = "boxes.dashboard"
          /\ resp'.arg = 0
          /\ resp'.data = {}
          /\ Outcome(resp') # MissingOutcome(resp'.op)
          /\ MissingOutcome(resp'.op).status = 404]_vars

\* a non-owner was denied the edit form of an item in another user's box
C4_Witness ==
    /\ resp.op = "edit_item"
    /\ resp.user # 0
    /\ resp.id \in DOMAIN items
    /\ boxes[items[resp.id].box_id].user_id # resp.user
    /\ resp.status = 302
    /\ resp.flash = MsgItemDenied

\* C5: a logged-in user's request that names a box or item identifier
\* resolving to no entity, and an owner's move of an item to a destination
\* identifier resolving to no box, is answered 404 Not Found, which is not the
\* permission-denied redirect, and changes nothing stored.
C5_MissingIsNotFound ==
    [][/\ MissingStep
          => /\ resp'.status = 404
             /\ resp'.target = "errors/404.html"
             /\ ~IsDenial(resp', DeniedMessages)
             /\ UNCHANGED <<boxes, items, files>>
       /\ \A i \in DOMAIN items, m \in BoxIds \ DOMAIN boxes :
             (is_authenticated /\ ItemIsOwnedBy(i, current_user))
             => /\ MoveItemResponse(i, m).status = 404
                /\ MoveItemResponse(i, m).flash \notin
                      DeniedMessages \cup {MsgMoveDenied}]_vars

\* a logged-in user asked for a box identifier that names no box while a box
\* of another user exists
C5_Witness ==
    /\ resp.op = "view_box"
    /\ resp.user # 0
    /\ resp.status = 404
    /\ resp.id \notin DOMAIN boxes
    /\ \E b \in DOMAIN boxes : boxes[b].user_id # resp.user

\* C6 as stated: the response an anonymous client gets to a submitted
\* forgot-password form is one that every email, registered or not, could
\* have drawn in that state, so it does not tell whether the submitted email
\* matches an account.
C6_SameForEveryEmail ==
    [][(Answers({"forgot_password"}) /\ ~is_authenticated /\ resp'.status = 302)
       => \A e \in Emails :
             \E mail_ok \in BOOLEAN :
                Outcome(resp') = Outcome(ForgotPasswordResponse(e, mail_ok))]_vars

\* C7 as stated: once a reset_password request has completed a password
\* reset with a token, the next reset_password request presenting the same
\* token is rejected as invalid or expired.
C7_SingleUse ==
    [][(/\ resp.op = "reset_password"
        /\ resp.flash = MsgResetDone
        /\ Answers({"reset_password"})
        /\ resp'.token = resp.token
        /\ ~is_authenticated)
       => resp'.flash = MsgTokenInvalid]_vars

\* seconds since token t was issued
Elapsed(t) == now - t.ts

\* the users whose email is the one token t carries
Holders(t) == {u \in DOMAIN users : users[u].email = t.email}

\* C8 as stated: a delivered token verified with maximum age m resolves to
\* no user when more than m seconds have passed since it was issued, and to
\* the user it was issued for when fewer than m seconds have passed.
C8_ReturnsOriginator ==
    \A t \in tokens, m \in MaxAges :
        /\ Elapsed(t) > m => verify_reset_token(t, m) = 0
        /\ Elapsed(t) < m => verify_reset_token(t, m) = t.user

\* C8 amended: a delivered token verified with maximum age m resolves to no
\* user when more than m seconds have passed since it was issued or when its
\* signature is not intact; when fewer than m seconds have passed it resolves
\* to the user it was issued for as long as that user exists with the
\* token's email, and otherwise to the user that now holds that email or to
\* no user when none does.
C8_ReturnsHolder ==
    \A t \in tokens, m \in MaxAges :
        /\ Elapsed(t) > m => verify_reset_token(t, m) = 0
        /\ verify_reset_token([t EXCEPT !.sig = FALSE], m) = 0
        /\ Elapsed(t) < m
           => /\ (t.user \in DOMAIN users /\ users[t.user].email = t.email)
                 => verify_reset_token(t, m) = t.user
              /\ Holders(t) = {} => verify_reset_token(t, m) = 0
              /\ Holders(t) # {} => verify_reset_token(t, m) \in Holders(t)

\* a delivered token is younger than the configured maximum age and the
\* user it was issued for has been deleted
C8_Witness ==
    \E t \in tokens :
        /\ Elapsed(t) < PASSWORD_RESET_EXPIRY
        /\ t.user \notin DOMAIN users
        /\ now > 0

\* token t fails verification: bad signature, undecodable payload, older
\* than the configured maximum age, or an email no user holds
FailingToken(t) ==
    \/ ~t.sig
    \/ ~t.payload
    \/ Elapsed(t) > PASSWORD_RESET_EXPIRY
    \/ Holders(t) = {}

\* C9: a reset_password request of a client that is not logged in, with a
\* token that has a bad signature, a payload that does not decode, an age
\* above the maximum, or a valid fresh token whose email matches no user, gets
\* one and the same response, the invalid-or-expired message with a redirect
\* to the forgot-password page, and changes no password.
C9_FailuresAlike ==
    [][(Answers({"reset_password"}) /\ ~is_authenticated
        /\ FailingToken(resp'.token))
       => /\ Outcome(resp') =
                [status |-> 302, flash |-> MsgTokenInvalid,
                 target |-> "auth.forgot_password", arg |-> 0, data |-> {}]
          /\ UNCHANGED users]_vars

\* a correctly signed token within its maximum age, whose email no user
\* holds any more, was rejected with the invalid-or-expired message
C9_Witness ==
    /\ resp.op = "reset_password"
    /\ resp.flash = MsgTokenInvalid
    /\ resp.token.sig
    /\ resp.token.payload
    /\ Elapsed(resp.token) <= PASSWORD_RESET_EXPIRY
    /\ Holders(resp.token) = {}

\* the session belongs to an existing user whose is_admin flag is set
AdminSession == session \in DOMAIN users /\ users[session].is_admin

\* C10: a back-office request (the index, a model view, or a change made
\* through one) is served only when the session is authenticated and its
\* user's is_admin flag is true; any other request is redirected to the login
\* page, shows no row and changes nothing; and the back-office request that
\* follows the administrator's logout is redirected.
C10_AdminOnly ==
    [][Answers(AdminOps)
       => /\ ~AdminSession
             => /\ resp'.status = 302
                /\ resp'.target = "auth.login"
                /\ resp'.data = {}
                /\ UNCHANGED <<users, boxes, items, files>>
          /\ (resp.op = "logout" /\ resp.target = "main.index")
             => resp'.status = 302 /\ resp'.target = "auth.login"
          /\ AdminSession /\ resp'.op \in AdminViews
             => /\ resp'.status = 200
                /\ resp'.data = {r \in AllRows : r.table = resp'.op}]_vars

\* a logged-in user without the is_admin flag was redirected away from the
\* list of users
C10_Witness ==
    /\ resp.op = "users"
    /\ resp.user \in DOMAIN users
    /\ session = resp.user
    /\ ~users[resp.user].is_admin
    /\ resp.status = 302
    /\ resp.target = "auth.login"

\* C11: every user a step adds to the users table has is_admin false, and a
\* step changes the is_admin flag of an existing user only when it answers
\* the back-office edit of a user made under an administrator's session; no
\* register, login, logout, forgot-password, reset-password, box or item
\* request changes any flag.
C11_AdminFlagFrame ==
    [][/\ \A u \in DOMAIN users' \ DOMAIN users : ~users'[u].is_admin
       /\ \A u \in DOMAIN users' \cap DOMAIN users :
             users'[u].is_admin # users[u].is_admin
             => /\ resp'.op = "admin.edit_user"
                /\ resp'.id = u
                /\ AdminSession]_vars

\* a register request has just created an account, which is no
\* administrator, while the seeded administrator still is one
C11_Witness ==
    /\ resp.op = "register"
    /\ resp.target = "auth.login"
    /\ \E u \in DOMAIN users \ {1} : ~users[u].is_admin
    /\ \E u \in DOMAIN users : users[u].is_admin

\* C12: in every reachable state every item references an existing box and
\* every box references an existing user, whatever boxes and users have been
\* deleted before.
C12_NoOrphans ==
    /\ \A i \in DOMAIN items : items[i].box_id \in DOMAIN boxes
    /\ \A b \in DOMAIN boxes : boxes[b].user_id \in DOMAIN users

\* the back-office has just deleted a user after a box and an item had been
\* created, and another user's box with an item in it is still there
C12_Witness ==
    /\ resp.op = "admin.delete_user"
    /\ resp.flash = "Record was successfully deleted."
    /\ resp.id \notin DOMAIN users
    /\ nextBoxId > MaxBoxes
    /\ nextItemId > MaxItems
    /\ Cardinality(DOMAIN boxes) = 1
    /\ Cardinality(DOMAIN items) = 1

\* C13 as stated: after delete_box has reported success for a box, neither
\* the box's image nor its QR file exists in the storage backend.
C13_FilesGone ==
    [][\A b \in DOMAIN boxes :
          (/\ Answers({"delete_box"})
           /\ resp'.id = b
           /\ resp'.flash = "Box deleted successfully!")
          => /\ ~exists(files', boxes[b].image_path)
             /\ ~exists(files', boxes[b].qr_code_path)]_vars

\* C14 as stated: after a QR regeneration that failed, the box's QR field is
\* unset, and no box ever holds a QR location at which storage has no file.
C14_NoDanglingQr ==
    [][\A b \in DOMAIN boxes' :
          /\ (/\ Answers({"regenerate_qr"})
              /\ resp'.id = b
              /\ resp'.flash = "Error regenerating QR code.")
             => boxes'[b].qr_code_path = NoPath
          /\ boxes'[b].qr_code_path # NoPath
             => exists(files', boxes'[b].qr_code_path)]_vars

\* C15 as stated: when save_image fails inside create_box or edit_box, the
\* user is shown a failure message and the Box change is not committed.
C15_FailedUploadRollsBack ==
    [][\A form \in BoxForms, k \in 1..MaxSuffix :
          (form.submit /\ form.valid /\ form.image)
          => /\ \A qr_ok \in BOOLEAN :
                   (is_authenticated /\ CreateBox(form, k, qr_ok, FALSE))
                   => /\ resp'.flash # "Box created successfully!"
                      /\ boxes' = boxes
             /\ \A b \in BoxIds, del_ok \in BOOLEAN :
                   (/\ Passed(OwnsBoxGuard("edit_box", b))
                    /\ ~(form.delete_image /\ boxes[b].image_path # NoPath)
                    /\ EditBox(b, form, k, del_ok, FALSE))
                   => /\ resp'.flash # "Box updated successfully!"
                      /\ boxes' = boxes]_vars

QrFilesOf(fs, b) == {p \in fs : p.kind = "qr" /\ p.box = b}

\* C16: a QR regeneration that reports success leaves exactly one QR file of
\* the Box in storage, the one the Box's QR field names, and regenerating
\* again straight away, whether or not the old file can be deleted, leaves
\* the same single file and the same reference.
C16_TwiceLeavesOne ==
    [][\A b \in DOMAIN boxes' :
          (/\ Answers({"regenerate_qr"})
           /\ resp'.id = b
           /\ resp'.flash = "QR code regenerated successfully!")
          => /\ QrFilesOf(files', b) = {boxes'[b].qr_code_path}
             /\ \A del_ok \in BOOLEAN :
                   LET again == regenerate_for_box(files', b,
                                    boxes'[b].qr_code_path, del_ok, TRUE)
                   IN  /\ again.path = boxes'[b].qr_code_path
                       /\ QrFilesOf(again.files, b) = {again.path}]_vars

C16_Witness ==
    /\ resp.op = "regenerate_qr"
    /\ resp.flash = "QR code regenerated successfully!"
    /\ resp.id \in DOMAIN boxes
    /\ boxes[resp.id].image_path \in files
    /\ QrFilesOf(files, resp.id) = {QrPath(resp.id)}
    /\ regenerate_for_box(files, resp.id, boxes[resp.id].qr_code_path, FALSE, TRUE).files
          = files

StorageOps == {"save_image", "save_qr", "delete", "exists", "get_url"}

\* the location holds no content before the step
NothingStoredAt(file_path) ==
    IF storage.type = "local" THEN ~exists(files, file_path)
    ELSE S3_extract_key_from_url(storage, file_path) \notin storage.objects

\* C17 as stated: on every backend, delete of a location that holds no
\* content returns false, does not raise and leaves the stored content alone
\* (the remote service answering).
C17_DeleteOfAbsentIsFalse ==
    [][(Answers({"delete"}) /\ resp'.api = "ok" /\ NothingStoredAt(resp'.arg))
       => /\ resp'.value = FALSE
          /\ ~resp'.raised
          /\ files' = files
          /\ storage' = storage]_vars

\* C17: delete of a location that holds no content leaves the stored content
\* alone and raises only if the remote call fails with something other than
\* a ClientError. The local backend returns false. The object-storage
\* backend returns false for an empty location, for a location it cannot
\* resolve to a key of its bucket and when the service rejects the request,
\* and returns TRUE when the location resolves to a key and the service
\* accepts the request, although no object was stored under the key.
C17_DeleteOfAbsent ==
    [][(Answers({"delete"}) /\ NothingStoredAt(resp'.arg))
       => /\ files' = files
          /\ storage' = storage
          /\ resp'.raised => (storage.type = "s3" /\ resp'.api = "error")
          /\ ~resp'.raised
             => resp'.value =
                   (/\ storage.type = "s3"
                    /\ resp'.api = "ok"
                    /\ S3_extract_key_from_url(storage, resp'.arg) # <<>>)]_vars

C17_Witness ==
    /\ storage.type = "s3"
    /\ storage.objects # {}
    /\ resp.op = "delete"
    /\ resp.api = "ok"
    /\ resp.arg = S3_get_url(storage, NeverWritten(storage))
    /\ S3_extract_key_from_url(storage, resp.arg) = NeverWritten(storage)
    /\ resp.value = TRUE

\* C18 as stated: under every configuration of the object-storage backend the
\* key extracted from the URL built for a generated key is that key, and the
\* URL a save returned resolves to an object the bucket holds.
C18_RoundTrip ==
    storage.type = "s3"
    => /\ \A key \in S3Keys(storage) :
             S3_extract_key_from_url(storage, S3_get_url(storage, key)) = key
       /\ (resp.op \in {"save_image", "save_qr"} /\ resp.value # <<>>)
          => S3_extract_key_from_url(storage, resp.value) \in storage.objects

\* C19 as stated: no storage operation of either backend lets an exception
\* reach its caller.
C19_NeverRaises == resp.op \in StorageOps => ~resp.raised

\* C20: on the local backend, exists(location) is true right after a save
\* returned that location, and false right after delete(location) returned
\* true.
C20_ExistsFollowsSaveAndDelete ==
    [][storage.type = "local"
       => /\ (Answers({"save_image", "save_qr"}) /\ resp'.value # NoPath)
             => exists(files', resp'.value)
          /\ (Answers({"delete"}) /\ resp'.value = TRUE)
             => ~exists(files', resp'.arg)]_vars

C20_Witness ==
    /\ storage.type = "local"
    /\ resp.op = "delete"
    /\ resp.value = TRUE
    /\ ~exists(files, resp.arg)
    /\ \E p \in files : p.kind = "qr"
    /\ \E p \in files : p.kind = "image"

C30_ImagePathNamesFile ==
    \A b \in DOMAIN boxes :
        boxes[b].image_path # NoPath => exists(files, boxes[b].image_path)

\* C26: the QR file a box refers to, written at creation or at a
\* regeneration, encodes exactly "/qr/" followed by the decimal id of that
\* box, and a request by the box's owner to the path the file encodes is
\* redirected to the detail view of that same box.
C26_QrLeadsToBox ==
    [][/\ \A b \in DOMAIN boxes' :
             boxes'[b].qr_code_path # NoPath
             => qr_data'[boxes'[b].qr_code_path] = <<"/qr/", ToString(b)>>
       /\ \A b \in DOMAIN boxes :
             (/\ boxes[b].qr_code_path # NoPath
              /\ RequestStep({"scan_redirect"})
              /\ resp'.id = scan_redirect_rule(qr_data[boxes[b].qr_code_path])
              /\ BoxIsOwnedBy(b, current_user))
             => /\ resp'.status = 302
                /\ resp'.target = "boxes.view_box"
                /\ resp'.arg = b]_vars

\* the owner of the second box followed the path its QR file encodes and was
\* sent to the page of the second box
C26_Witness ==
    /\ resp.op = "scan_redirect"
    /\ resp.id = 2
    /\ resp.id \in DOMAIN boxes
    /\ BoxIsOwnedBy(resp.id, current_user)
    /\ boxes[resp.id].qr_code_path \in DOMAIN qr_data
    /\ scan_redirect_rule(qr_data[boxes[resp.id].qr_code_path]) = resp.id
    /\ resp.target = "boxes.view_box"
    /\ resp.arg = resp.id

\* the step is a return of get_storage_backend: no thread has just gone on
\* to construct a backend
ReturnStep ==
    /\ resp'.op = "get_storage_backend"
    /\ apps' = apps
    /\ \A t \in Threads : calls'[t].pc = "missed" => calls[t].pc = "missed"

\* C21 as stated: the backend get_storage_backend returns for an application
\* was constructed from that application's configuration.
C21_BackendOfOwnConfig ==
    [][ReturnStep => resp'.value.config = apps[resp'.arg]]_vars

\* C29 as stated: a backend is constructed for an application only while the
\* cache holds none for it, and once the cache holds one every call returns
\* that instance.
C29_BuiltOnce ==
    [][(ReturnStep /\ resp'.arg \in DOMAIN storage_backends)
       => /\ built' = built
          /\ resp'.value = storage_backends[resp'.arg]]_vars

\* C22: no two persisted users share a username and no two share an email,
\* also when registrations with the same username or the same email were
\* validated concurrently, before either was committed.
C22_UniqueUsers ==
    \A u, v \in DOMAIN users :
        u # v => /\ users[u].username # users[v].username
                 /\ users[u].email # users[v].email

\* the second of two concurrently validated registrations was rejected at
\* the commit, after the first had been stored
C22_Witness ==
    /\ resp.op = "register"
    /\ resp.status = 500
    /\ Cardinality(DOMAIN users) = 1
    /\ \A t \in Threads : registrations[t] = NoRegistration

\* the quantity and the value of a submission are storable numbers
NonNegative(quantity, value_null, value) ==
    quantity >= 0 /\ (value_null \/ value >= 0)

\* C23: every persisted item has a quantity >= 0 and a unit value that is
\* missing or >= 0; a submission with a negative quantity or a negative
\* value, through the item form or through the back-office, leaves the
\* stored items unchanged and is not reported as saved.
C23_NonNegativeItems ==
    [][/\ \A i \in DOMAIN items' :
             NonNegative(items'[i].quantity, items'[i].value_null, items'[i].value)
       /\ (Answers({"admin.edit_item"}) /\ is_accessible /\ resp'.id \in DOMAIN items)
          => \A quantity \in QtyInputs, value_null \in BOOLEAN, value \in ValueInputs :
                (/\ ~NonNegative(quantity, value_null, value)
                 /\ AdminEditItem(resp'.id, quantity, value_null, value))
                => /\ items' = items
                   /\ resp'.flash # "Record was successfully saved."
       /\ Answers({"create_item", "edit_item"})
          => \A form \in ItemForms :
                (/\ form.submit
                 /\ ~NonNegative(form.quantity, ~form.has_value, form.value)
                 /\ \/ resp'.op = "create_item" /\ CreateItem(resp'.id, form)
                    \/ resp'.op = "edit_item" /\ EditItem(resp'.id, form))
                => /\ items' = items
                   /\ resp'.flash \notin {"Item added to box!",
                                          "Item updated successfully!"}]_vars

\* the back-office tried to store a negative number in an item and the
\* database refused
C23_Witness ==
    /\ resp.op = "admin.edit_item"
    /\ resp.flash = "Integrity error."
    /\ resp.id \in DOMAIN items
    /\ NonNegative(items[resp.id].quantity, items[resp.id].value_null,
                   items[resp.id].value)

\* C24 as stated: create_item and edit_item accept a submitted quantity
\* exactly when it is >= 0, the rest of the form being valid.
C24_AcceptsFromZero ==
    [][\A form \in ItemForms :
          (form.submit /\ form.name_ok /\ (form.has_value => form.value >= 0))
          => /\ \A b \in BoxIds :
                   (Passed(OwnsBoxGuard("create_item", b)) /\ CreateItem(b, form))
                   => (resp'.flash = "Item added to box!" <=> form.quantity >= 0)
             /\ \A i \in ItemIds :
                   (Passed(OwnsItemGuard("edit_item", i)) /\ EditItem(i, form))
                   => (resp'.flash = "Item updated successfully!"
                          <=> form.quantity >= 0)]_vars

\* the sum of f over S
RECURSIVE Sum(_, _)
Sum(f, S) ==
    IF S = {} THEN 0
    ELSE LET x == CHOOSE x \in S : TRUE IN f[x] + Sum(f, S \ {x})

\* C25: for every box, item_count is the number of items whose box
\* reference is that box, total_items the sum of their quantities, and
\* total_value the sum of unit value times quantity over those items, a
\* missing unit value counting as zero.
C25_Aggregates ==
    \A b \in DOMAIN boxes :
        LET mine == {i \in DOMAIN items : items[i].box_id = b}
        IN  /\ item_count(b) = Cardinality(mine)
            /\ total_items(b, 1) = Sum([i \in mine |-> items[i].quantity], mine)
            /\ total_value(b, 1) =
                  Sum([i \in mine |->
                          (IF items[i].value_null THEN 0 ELSE items[i].value)
                          * items[i].quantity], mine)

\* a box holds an item without a unit value and an item of value 1 in
\* quantity 2, and the other box holds nothing
C25_Witness ==
    /\ resp.op \in {"move_item", "admin.edit_item", "duplicate_item"}
    /\ \E b \in DOMAIN boxes :
          /\ item_count(b) = 2
          /\ total_items(b, 1) >= 3
          /\ total_value(b, 1) = 2
          /\ \E i \in ItemsOf(b) : items[i].value_null
    /\ \E b \in DOMAIN boxes : item_count(b) = 0

\* C28: the dashboard shows only boxes owned by the user who asked for it,
\* and a search, whatever its query, type and category filter, returns only
\* boxes owned by the user who searched, only items whose box that user owns,
\* and only categories carried by such items.
C28_OnlyOwnRows ==
    LET mine(b) == b \in DOMAIN boxes /\ boxes[b].user_id = resp.user
        my_item(i) == i \in DOMAIN items /\ mine(items[i].box_id)
    IN  /\ (resp.op = "dashboard" /\ resp.status = 200)
           => \A r \in resp.data : r.table = "boxes" /\ mine(r.id)
        /\ (resp.op = "search" /\ resp.status = 200)
           => /\ \A r \in resp.data.boxes_results : r.table = "boxes" /\ mine(r.id)
              /\ \A r \in resp.data.items_results : r.table = "items" /\ my_item(r.id)
              /\ \A c \in resp.data.categories :
                    \E i \in DOMAIN items : my_item(i) /\ items[i].category = c

\* A search that returned a box, an item and a category of the user who
\* searched while another user owns a box and an item of another category
\* that match the same query.
C28_Witness ==
    /\ resp.op = "search"
    /\ resp.status = 200
    /\ resp.data.boxes_results # {}
    /\ resp.data.items_results # {}
    /\ resp.data.categories # {}
    /\ \E b \in DOMAIN boxes, i \in DOMAIN items :
          /\ boxes[b].user_id # resp.user
          /\ items[i].box_id = b
          /\ items[i].category # <<>>
          /\ items[i].category \notin resp.data.categories

====
